---- MODULE Spec2Model ----
(***************************************************************************)
(* Wallet balance aggregation backend: the connected-wallet routes, the    *)
(* balance reconciler (fetchAndUpdateWalletBalances), the wallet seeding   *)
(* (initializeWalletWithAddresses), the chain fetchers, the price client   *)
(* and the storage operations they call, over the tables of schema.ts;     *)
(* also the market-data route with its upsert, the trading-history route   *)
(* with createTradingRecord, upsertWalletBalance and getMarketData called  *)
(* on their own, and the connect functions of the browser client.          *)
(*                                                                         *)
(* Every `await` of the source is one atomic step of a request handler;    *)
(* the code between two awaits belongs to the step that ends it.  A fetcher *)
(* invocation (several sequential HTTP calls) is one step that reads the   *)
(* current upstream responses.                                             *)
(***************************************************************************)
EXTENDS Integers, Sequences, FiniteSets, TLC

(* ------------------------------ bounds -------------------------------- *)

\* requests accepted in one run
MaxRequests == 2
\* connected_wallets rows ever inserted (ids are fresh, never reused)
MaxWallets == 5
\* wallet_balances rows ever inserted
MaxRows == 3
\* storage operations that fail (connection lost, statement error)
MaxFaults == 1

\* symbols in one request to the price client made on its own
MaxSymbols == 2
\* trading_history rows inserted in one run
MaxTrades == 2

Users == {"u1", "u2"}
\* requests in flight at once
Handlers == {1, 2}

(* --------------------------- numbers ---------------------------------- *)
(* A decimal number m * 10^e, kept normalised (m not a multiple of 10, or  *)
(* m = 0 and e = 0), so that equal numbers are equal records.  Raw chain   *)
(* amounts (integers around 10^18) and their unit conversions are exact.   *)

RECURSIVE Norm(_, _)
Norm(m, e) ==
  IF m = 0 THEN [m |-> 0, e |-> 0]
  ELSE IF m % 10 = 0 THEN Norm(m \div 10, e + 1)
  ELSE [m |-> m, e |-> e]

\* variant for comparison: every amount is divided by 10^18
DivPow10Eighteen(raw, decimals) == Norm(raw.m, raw.e - 18)

\* parseInt(raw) / Math.pow(10, decimals)
DivPow10(raw, decimals) == Norm(raw.m, raw.e - decimals)

\* parseFloat(balance) * price
Times(a, b) == Norm(a.m * b.m, a.e + b.e)

\* k whole units of a coin with d decimals, as the raw integer the chain reports
Raw(k, d) == Norm(k, d)

(* --------------------------- static tables ---------------------------- *)

NoAddress == "null"

\* TOKEN_CONTRACTS, in the order Object.entries walks them
TOKEN_CONTRACTS(network) ==
  CASE network = "ethereum" ->
         << [symbol |-> "USDT", contract |-> "0xdAC17F958D2ee523a2206206994597C13D831ec7"],
            [symbol |-> "USDC", contract |-> "0xA0b86a33E6417C5BB1d1e91a064B1B8a9166B1b8"],
            [symbol |-> "BNB",  contract |-> "0xB8c77482e45F1F44dE1745F52C74426C631bDD52"] >>
    [] network = "bsc" ->
         << [symbol |-> "USDT", contract |-> "0x55d398326f99059fF775485246999027B3197955"],
            [symbol |-> "USDC", contract |-> "0x8AC76a51cc950d9822D68b83fE1Ad97B32Cd580d"],
            [symbol |-> "ETH",  contract |-> "0x2170Ed0880ac9A755fd29B2688956BD959F933F8"] >>
    [] network = "polygon" ->
         << [symbol |-> "USDT", contract |-> "0xc2132D05D31c914a87C6611C10748AEb04B58e8F"],
            [symbol |-> "USDC", contract |-> "0x2791Bca1f2de4661ED88A30C99A7a9449Aa84174"],
            [symbol |-> "ETH",  contract |-> "0x7ceB23fD6bC0adD59E62ac25578270cFf1b9f619"] >>
    [] OTHER -> << >>

\* the networks API_ENDPOINTS has an entry for
API_ENDPOINTS == {"ethereum", "bsc", "polygon", "tron"}

usdtTrc20Address == "TR7NHqjeKQxGTCi8q8ZY4pL8otSzgjLj6t"

\* symbolMapping of getTokenPrices: symbol -> CoinGecko id
symbolMapping ==
  << <<"BTC", "bitcoin">>, <<"ETH", "ethereum">>, <<"BNB", "binancecoin">>,
     <<"USDT", "tether">>, <<"USDC", "usd-coin">>, <<"MATIC", "matic-network">>,
     <<"TRX", "tron">> >>

\* predefinedWallets of initializeWalletWithAddresses, in loop order
predefinedWallets ==
  << [address |-> "0xB36EDa1ffC696FFba07D4Be5cd249FE5E0118130", network |-> "ethereum"],
     [address |-> "bc1qv4fffwt8ux3k33n2dms5cdvuh6suc0gtfevxzu", network |-> "bitcoin"],
     [address |-> "0xB36EDa1ffC696FFba07D4Be5cd249FE5E0118130", network |-> "bsc"],
     [address |-> "TSt7yoNwGYRbtMMfkSAHE6dPs1cd9rxcco", network |-> "tron"] >>

\* variant for comparison: the list without 'tron'
SeedFetchableWithoutTron == {"ethereum", "bsc", "polygon"}

\* the networks the seeding loop refreshes right after creating the wallet
SeedFetchable == {"ethereum", "bsc", "polygon", "tron"}

(* --------------------------- upstream APIs ---------------------------- *)
(* What the block explorers, TronGrid and CoinGecko answer.  An upstream   *)
(* state names the holdings every queried address has (world), how the     *)
(* explorer calls that answer end (explorer), which of a fetcher's calls   *)
(* throw, counted in the order the fetcher makes them (throws), and how    *)
(* the price call ends (price).                                            *)

Range(s) == {s[i] : i \in 1..Len(s)}

nativeSymbol(network) ==
  CASE network = "ethereum" -> "ETH"
    [] network = "bsc" -> "BNB"
    [] network = "polygon" -> "MATIC"
    [] OTHER -> ""

\* whole units of `symbol` an address holds on `network`
Units(world, network, symbol) ==
  CASE world = "a" /\ symbol \in {"ETH", "BNB", "MATIC", "TRX"}
                   /\ symbol = (IF network = "tron" THEN "TRX" ELSE nativeSymbol(network)) -> 1
    [] world = "b" /\ symbol \in {"ETH", "BNB", "MATIC", "TRX"}
                   /\ symbol = (IF network = "tron" THEN "TRX" ELSE nativeSymbol(network)) -> 2
    [] world = "twice" /\ symbol \in {"ETH", "BNB", "MATIC", "TRX"}
                       /\ symbol = (IF network = "tron" THEN "TRX" ELSE nativeSymbol(network)) -> 1
    [] world \in {"a", "b", "twice"} /\ symbol = "USDT" -> 5
    [] world = "twice" /\ symbol = "USDC" -> 3
    [] world = "twice" /\ symbol \in {"ETH", "BNB"} /\ network # "tron"
                       /\ symbol # nativeSymbol(network) -> 4
    [] OTHER -> 0

\* the HTTP calls of one fetcher invocation: fetchEVMBalance asks for the native
\* balance (1) and for the three tokens of the contract table (2..4);
\* fetchTronBalance asks for the account (1) and for its TRC-20 tokens (2)
Calls == 1..4

RECURSIVE indexOf(_, _, _)
indexOf(tokens, symbol, k) ==
  IF k > Len(tokens) THEN 0
  ELSE IF tokens[k].symbol = symbol THEN k
  ELSE indexOf(tokens, symbol, k + 1)

\* the place of the explorer call for `symbol` among the calls of fetchEVMBalance
callOf(network, symbol) ==
  IF symbol = nativeSymbol(network) THEN 1
  ELSE 1 + indexOf(TOKEN_CONTRACTS(network), symbol, 1)

UpstreamStates ==
  { [world |-> "a",     explorer |-> "ok", throws |-> {},    price |-> "ok"],
    [world |-> "b",     explorer |-> "ok", throws |-> {},    price |-> "fail"],
    [world |-> "empty", explorer |-> "ok", throws |-> {},    price |-> "ok"],
    [world |-> "a",     explorer |-> "ok", throws |-> Calls, price |-> "ok"] }

\* answer of an explorer balance call (module=account, action=balance or
\* tokenbalance): the fetch may throw, answer non-OK, or answer a JSON body
\* {status, result} whose result is a decimal string of the raw amount
RespondExplorer(up, network, symbol, decimals) ==
  [ thrown |-> callOf(network, symbol) \in up.throws,
    ok     |-> up.explorer \in {"ok", "rejected"},
    status |-> IF up.explorer = "ok" THEN "1" ELSE "0",
    result |-> IF up.explorer = "ok"
               THEN {Raw(Units(up.world, network, symbol), decimals)} ELSE {} ]

\* answer of TronGrid /v1/accounts/{address}: data is a list of accounts,
\* empty for an address never seen on chain
RespondTronAccount(up) ==
  [ thrown |-> 1 \in up.throws,
    ok     |-> up.explorer = "ok",
    data   |-> IF up.world = "empty" THEN << >>
               ELSE << [balance |-> Raw(Units(up.world, "tron", "TRX"), 6)] >> ]

\* answer of TronGrid /v1/accounts/{address}/tokens?type=trc20: one entry per
\* token record of the account; in world "twice" the list carries the USDT
\* contract in two entries
RespondTronTokens(up) ==
  LET entry == [token_address |-> usdtTrc20Address,
                balance |-> Raw(Units(up.world, "tron", "USDT"), 6),
                token_decimal |-> 6]
  IN [ thrown |-> 2 \in up.throws,
       ok     |-> up.explorer = "ok",
       data   |-> IF Units(up.world, "tron", "USDT") = 0 THEN << >>
                  ELSE IF up.world = "twice" THEN << entry, entry >>
                  ELSE << entry >> ]

\* the ids CoinGecko quotes, with their USD price
CoinGeckoUsd(id) ==
  CASE id = "ethereum" -> Norm(2000, 0)
    [] id = "binancecoin" -> Norm(300, 0)
    [] id = "tether" -> Norm(1001, -3)
    [] id = "tron" -> Norm(1, -1)
    [] id = "dogecoin" -> Norm(7, -2)
    [] OTHER -> Norm(0, 0)

CoinGeckoIds == {"bitcoin", "ethereum", "binancecoin", "tether", "usd-coin", "matic-network", "tron"}

\* answer of /simple/price?ids=...: the fetch throws ("throw"), answers a
\* non-success status ("fail"), a body response.json() cannot parse
\* ("unparsable"), one entry per requested id CoinGecko knows ("ok"), or
\* entries nobody asked for ("all")
RespondPrice(up, ids) ==
  [ thrown |-> up.price \in {"throw", "unparsable"},
    ok     |-> up.price # "fail",
    data   |-> IF up.price = "all"
               THEN [id \in CoinGeckoIds \cup {"dogecoin"} |-> CoinGeckoUsd(id)]
               ELSE [id \in ids \cap CoinGeckoIds |-> CoinGeckoUsd(id)] ]

(* --------------------------- price client ----------------------------- *)

\* variant for comparison: a failed price call answers the prices of the stablecoins
getTokenPricesWithDefaults(symbols, up) ==
  LET response == RespondPrice(up, Range(symbols))
  IN IF response.thrown \/ ~response.ok
     THEN [s \in {"USDT", "USDC"} |-> Norm(1, 0)]
     ELSE [s \in {} |-> Norm(0, 0)]

\* variant for comparison: the prices are keyed by the ids of the response
getTokenPricesByResponseKeys(symbols, up) ==
  LET response == RespondPrice(up, Range(symbols))
  IN IF response.thrown \/ ~response.ok
     THEN [s \in {} |-> Norm(0, 0)]
     ELSE [id \in {k \in DOMAIN response.data : response.data[k].m # 0} |-> response.data[id]]

\* getTokenPrices(symbols): the request carries the symbols themselves as ids
getTokenPrices(symbols, up) ==
  LET response == RespondPrice(up, Range(symbols))
      data == response.data
      hits == { k \in 1..Len(symbolMapping) :
                  /\ symbolMapping[k][2] \in DOMAIN data
                  /\ data[symbolMapping[k][2]].m # 0 }
  IN IF response.thrown \/ ~response.ok
     THEN [s \in {} |-> Norm(0, 0)]
     ELSE [s \in {symbolMapping[k][1] : k \in hits} |->
             data[symbolMapping[CHOOSE k \in hits : symbolMapping[k][1] = s][2]]]

(* --------------------------- chain fetchers --------------------------- *)
(* A raw balance is [tokenSymbol, balance, tokenAddress].                  *)

\* fetchNativeBalance: the raw balance, or nothing (null), as a list of 0 or 1
fetchNativeBalance(address, network, up) ==
  IF network \notin API_ENDPOINTS THEN << >>
  ELSE IF network \notin {"ethereum", "bsc", "polygon"} THEN << >>
  ELSE LET response == RespondExplorer(up, network, nativeSymbol(network), 18)
       IN IF response.thrown THEN << >>
          ELSE IF ~response.ok THEN << >>
          ELSE IF response.status = "1" /\ response.result # {}
               THEN << [tokenSymbol |-> nativeSymbol(network),
                        balance |-> DivPow10(CHOOSE r \in response.result : TRUE, 18),
                        tokenAddress |-> NoAddress] >>
               ELSE << >>

\* the chain's decimals of a token of the contract table
ChainDecimals(symbol) == IF symbol \in {"USDT", "USDC"} THEN 6 ELSE 18

\* variant for comparison: the loop without the test data.result !== '0'
RECURSIVE tokenLoopKeepingZero(_, _, _, _)
tokenLoopKeepingZero(network, up, k, balances) ==
  LET tokens == TOKEN_CONTRACTS(network) IN
  IF k > Len(tokens) THEN balances
  ELSE LET symbol == tokens[k].symbol
           response == RespondExplorer(up, network, symbol, ChainDecimals(symbol))
       IN IF response.thrown THEN balances
          ELSE IF ~response.ok THEN tokenLoopKeepingZero(network, up, k + 1, balances)
          ELSE IF response.status = "1" /\ response.result # {}
               THEN tokenLoopKeepingZero(network, up, k + 1,
                      Append(balances,
                        [tokenSymbol |-> symbol,
                         balance |-> DivPow10(CHOOSE r \in response.result : TRUE,
                                              ChainDecimals(symbol)),
                         tokenAddress |-> tokens[k].contract]))
               ELSE tokenLoopKeepingZero(network, up, k + 1, balances)

\* the loop of fetchTokenBalances from entry k on, with the balances so far;
\* a throw leaves the loop through the catch around it
RECURSIVE tokenLoop(_, _, _, _)
tokenLoop(network, up, k, balances) ==
  LET tokens == TOKEN_CONTRACTS(network) IN
  IF k > Len(tokens) THEN balances
  ELSE LET symbol == tokens[k].symbol
           response == RespondExplorer(up, network, symbol, ChainDecimals(symbol))
       IN IF response.thrown THEN balances
          ELSE IF ~response.ok THEN tokenLoop(network, up, k + 1, balances)
          ELSE IF /\ response.status = "1"
                  /\ response.result # {}
                  /\ response.result # {Raw(0, 0)}
               THEN LET decimals == IF symbol = "USDT" \/ symbol = "USDC" THEN 6 ELSE 18
                    IN tokenLoop(network, up, k + 1,
                         Append(balances,
                           [tokenSymbol |-> symbol,
                            balance |-> DivPow10(CHOOSE r \in response.result : TRUE, decimals),
                            tokenAddress |-> tokens[k].contract]))
               ELSE tokenLoop(network, up, k + 1, balances)

\* the calls the loop of fetchTokenBalances issues from entry k on, by their
\* place among the calls of fetchEVMBalance: one per entry, until one throws
RECURSIVE tokenCalls(_, _, _)
tokenCalls(network, up, k) ==
  LET tokens == TOKEN_CONTRACTS(network) IN
  IF k > Len(tokens) THEN << >>
  ELSE LET symbol == tokens[k].symbol
           response == RespondExplorer(up, network, symbol, ChainDecimals(symbol))
       IN IF response.thrown THEN << k + 1 >>
          ELSE << k + 1 >> \o tokenCalls(network, up, k + 1)

\* the calls one fetchEVMBalance issues, in order: that of fetchNativeBalance,
\* then those of fetchTokenBalances
callsOfEVM(network, up) ==
  (IF network \in API_ENDPOINTS /\ network \in {"ethereum", "bsc", "polygon"}
   THEN << 1 >> ELSE << >>)
  \o (IF TOKEN_CONTRACTS(network) = << >> \/ network \notin API_ENDPOINTS THEN << >>
      ELSE tokenCalls(network, up, 1))

\* the calls one fetchTronBalance issues: the account, then the token list
\* unless the first threw
callsOfTron(up) ==
  IF RespondTronAccount(up).thrown THEN << 1 >> ELSE << 1, 2 >>

fetchTokenBalances(address, network, up) ==
  IF TOKEN_CONTRACTS(network) = << >> THEN << >>
  ELSE IF network \notin API_ENDPOINTS THEN << >>
  ELSE tokenLoop(network, up, 1, << >>)

\* variant for comparison: a throw of any call reaches the catch of
\* fetchEVMBalance, which returns []
fetchEVMBalanceAllOrNothing(address, network, up) ==
  IF up.throws # {} THEN << >>
  ELSE fetchNativeBalance(address, network, up) \o fetchTokenBalances(address, network, up)

fetchEVMBalance(address, network, up) ==
  fetchNativeBalance(address, network, up) \o fetchTokenBalances(address, network, up)

\* the token loop of fetchTronBalance
RECURSIVE tronTokenLoop(_, _, _)
tronTokenLoop(data, k, balances) ==
  IF k > Len(data) THEN balances
  ELSE IF data[k].token_address = usdtTrc20Address
       THEN tronTokenLoop(data, k + 1,
              Append(balances,
                [tokenSymbol |-> "USDT",
                 balance |-> DivPow10(data[k].balance, data[k].token_decimal),
                 tokenAddress |-> usdtTrc20Address]))
       ELSE tronTokenLoop(data, k + 1, balances)

fetchTronBalance(address, up) ==
  LET accountResponse == RespondTronAccount(up)
      tokenResponse == RespondTronTokens(up)
      trx == IF accountResponse.ok /\ Len(accountResponse.data) > 0
             THEN LET trxBalance == DivPow10(accountResponse.data[1].balance, 6)
                  IN IF trxBalance.m > 0
                     THEN << [tokenSymbol |-> "TRX", balance |-> trxBalance,
                              tokenAddress |-> NoAddress] >>
                     ELSE << >>
             ELSE << >>
  IN IF accountResponse.thrown THEN << >>
     ELSE IF tokenResponse.thrown THEN trx
     ELSE IF tokenResponse.ok THEN tronTokenLoop(tokenResponse.data, 1, trx)
     ELSE trx

(* ------------------------------ state --------------------------------- *)

VARIABLES
  connectedWallets,   \* table connected_wallets: set of rows
  walletBalances,     \* table wallet_balances: set of rows
  nextWalletId,       \* the next fresh connected_wallets id
  nextBalanceId,      \* the next fresh wallet_balances id
  upstream,           \* what the third-party APIs answer now
  h,                  \* per request handler: position and locals of its request
  started,            \* requests accepted so far
  faults,             \* storage operations failed so far
  lastRefresh,        \* per wallet id: what its last completed refresh fetched and left
  portfolios,         \* table portfolios: set of rows
  walletAddresses,    \* table wallet_addresses: set of rows
  call,               \* one invocation of a fetcher or of the price client, on its own
  marketData,         \* table market_data: set of rows
  tradingHistory      \* table trading_history: set of rows

vars == << connectedWallets, walletBalances, nextWalletId, nextBalanceId, upstream,
           h, started, faults, lastRefresh, portfolios, walletAddresses, call,
           marketData, tradingHistory >>

\* what the wallet routes leave alone
ledger == << marketData, tradingHistory >>
aside == << portfolios, walletAddresses, call, ledger >>

WalletIds == 1..MaxWallets

\* String.prototype.toLowerCase on the network names a connect body carries
toLowerCase(s) ==
  CASE s = "Polygon" -> "polygon"
    [] s = "Ethereum" -> "ethereum"
    [] s = "BNB Smart Chain" -> "bnb smart chain"
    [] OTHER -> s

\* network values of the connect bodies tried ("" is a missing field)
ConnectNetworks == {"Polygon", "bnb smart chain", ""}

NoPrices == [s \in {} |-> Norm(0, 0)]

\* a handler with no request, as after construction
Fresh ==
  [ pc |-> "idle", route |-> "none", userId |-> "", walletId |-> 0, body |-> "",
    inInit |-> FALSE, i |-> 0, network |-> "", address |-> "", fetcher |-> "",
    balances |-> << >>, prices |-> NoPrices, j |-> 0, existing |-> 0,
    saved |-> << >>, log |-> << >>, status |-> 0, error |-> "", returned |-> {},
    quotes |-> << >>, data |-> << >>, history |-> << >> ]

\* no fetcher or price client invocation under way on its own
NoCall ==
  [ op |-> "none", network |-> "", symbols |-> << >>, balances |-> << >>,
    prices |-> NoPrices, data |-> << >>, issued |-> << >> ]

\* The database outlives the server: it starts empty, or holding the wallet an
\* earlier POST /api/wallets/connect of u1 with network "Polygon" left.
StoredWallets ==
  { {},
    { [ id |-> 1, userId |-> "u1", walletType |-> "metamask", walletAddress |-> "0xUser",
        chainId |-> "1", network |-> "polygon" ] } }

\* The balance rows two overlapping refreshes of that wallet left while the
\* upstream answered world "a": both inserted MATIC, one inserted USDT and the
\* other updated it.
RowsAfterOverlap ==
  { [ id |-> 1, userId |-> "u1", walletId |-> 1, tokenSymbol |-> "MATIC",
      tokenAddress |-> NoAddress, balance |-> Norm(1, 0), balanceUSD |-> {} ],
    [ id |-> 2, userId |-> "u1", walletId |-> 1, tokenSymbol |-> "MATIC",
      tokenAddress |-> NoAddress, balance |-> Norm(1, 0), balanceUSD |-> {} ],
    [ id |-> 3, userId |-> "u1", walletId |-> 1, tokenSymbol |-> "USDT",
      tokenAddress |-> "0xc2132D05D31c914a87C6611C10748AEb04B58e8F",
      balance |-> Norm(5, 0), balanceUSD |-> {} ] }

StoredBalances(wallets) == IF wallets = {} THEN { {} } ELSE { {}, RowsAfterOverlap }

StartedWith(wallets, balances, upstreams, trades) ==
  /\ connectedWallets = wallets
  /\ walletBalances = balances
  /\ nextWalletId = Cardinality(wallets) + 1
  /\ nextBalanceId = Cardinality(balances) + 1
  /\ upstream \in upstreams
  /\ h = [p \in Handlers |-> Fresh]
  /\ started = 0
  /\ faults = 0
  /\ lastRefresh = [w \in WalletIds |-> {}]
  /\ portfolios = {}
  /\ walletAddresses = {}
  /\ call = NoCall
  /\ marketData = {}
  /\ tradingHistory = trades

StartedUnder(wallets, balances, upstreams) == StartedWith(wallets, balances, upstreams, {})

Started(wallets, balances) == StartedUnder(wallets, balances, UpstreamStates)

Init == \E wallets \in StoredWallets : Started(wallets, {})

\* as Init, or over the rows overlapping refreshes left
InitStored ==
  \E wallets \in StoredWallets : \E balances \in StoredBalances(wallets) :
    Started(wallets, balances)

(* ------------------------- storage operations ------------------------- *)

\* variant for comparison: the select without its where clause on user_id
getConnectedWalletsOfAnyone(wallets, userId) == wallets

\* storage.getConnectedWallets(userId)
getConnectedWallets(wallets, userId) == {w \in wallets : w.userId = userId}

\* wallets.find(w => w.id === walletId), as a set of 0 or 1 rows
find(wallets, walletId) == {w \in wallets : w.id = walletId}

\* storage.createConnectedWallet: the row inserted under a fresh id
createConnectedWallet(id, userId, walletType, walletAddress, chainId, network) ==
  [ id |-> id, userId |-> userId, walletType |-> walletType,
    walletAddress |-> walletAddress, chainId |-> chainId, network |-> network ]

\* rows of wallet_balances whose foreign key wallet_id points at the wallet
referencing(balances, walletId) == {b \in balances : b.walletId = walletId}

\* storage.deleteConnectedWallet: refused by the foreign key
\* wallet_balances.wallet_id -> connected_wallets.id (no ON DELETE action)
\* while a balance row references the wallet
deleteConnectedWalletRefused(balances, walletId) == referencing(balances, walletId) # {}

\* the same foreign key of trading_history.wallet_id
referencedByTrade(trades, walletId) == \E t \in trades : t.walletId = walletId

\* storage.deleteWalletBalances(walletId)
deleteWalletBalances(balances, walletId) == balances \ referencing(balances, walletId)

\* balance.walletId || "": a missing wallet id (0) becomes the empty string (-1),
\* the id of no row
orEmpty(walletId) == IF walletId = 0 THEN -1 ELSE walletId

\* the select of upsertWalletBalance
selectExisting(balances, balance) ==
  { b \in balances : /\ b.userId = balance.userId
                     /\ b.walletId = orEmpty(balance.walletId)
                     /\ b.tokenSymbol = balance.tokenSymbol }

\* variant for comparison: the update sets every column of the record passed
updateBalanceWholeRow(balances, id, balance) ==
  { IF b.id = id
    THEN [b EXCEPT !.balance = balance.balance, !.balanceUSD = balance.balanceUSD,
                   !.tokenAddress = balance.tokenAddress]
    ELSE b : b \in balances }

\* the update branch of upsertWalletBalance: set balance and balanceUSD of row
\* id; a balanceUSD of undefined is left out of the SET clause, so the column
\* keeps its value
updateBalance(balances, id, balance) ==
  { IF b.id = id
    THEN [b EXCEPT !.balance = balance.balance,
                   !.balanceUSD = IF balance.balanceUSD = {} THEN @ ELSE balance.balanceUSD]
    ELSE b : b \in balances }

\* variant for comparison: wallet_id without its reference to connected_wallets
insertNeverRefused(wallets, balance) == FALSE

\* the insert branch of upsertWalletBalance: refused by the foreign key when
\* the wallet id is set and no connected_wallets row has it
insertRefused(wallets, balance) ==
  balance.walletId # 0 /\ find(wallets, balance.walletId) = {}

insertBalance(balances, id, balance) ==
  balances \cup { [ id |-> id, userId |-> balance.userId, walletId |-> balance.walletId,
                    tokenSymbol |-> balance.tokenSymbol, tokenAddress |-> balance.tokenAddress,
                    balance |-> balance.balance, balanceUSD |-> balance.balanceUSD ] }

\* variant for comparison: the selects without their condition on user_id
getWalletBalancesOfAnyone(balances, userId, walletId) ==
  IF walletId # 0
  THEN {b \in balances : b.walletId = walletId}
  ELSE balances

\* storage.getWalletBalances(userId, walletId)
getWalletBalances(balances, userId, walletId) ==
  IF walletId # 0
  THEN {b \in balances : b.userId = userId /\ b.walletId = walletId}
  ELSE {b \in balances : b.userId = userId}

(* --------------------------- reconciler parts ------------------------- *)

\* variant for comparison: the switch without its case 'polygon'
dispatchWithoutPolygon(network) ==
  CASE network \in {"ethereum", "bsc"} -> "evm"
    [] network = "tron" -> "tron"
    [] OTHER -> "unsupported"

\* the switch on wallet.network of fetchAndUpdateWalletBalances
dispatch(network) ==
  CASE network \in {"ethereum", "bsc", "polygon"} -> "evm"
    [] network = "tron" -> "tron"
    [] OTHER -> "unsupported"

\* balances.map(b => b.tokenSymbol).filter(Boolean)
symbolsOf(balances) ==
  [k \in 1..Len(balances) |-> balances[k].tokenSymbol]

\* variant for comparison: the balance itself is stored as its USD value
balanceUSDUnconverted(balance, prices) ==
  IF balance.tokenSymbol \in DOMAIN prices THEN {balance.balance} ELSE {}

\* balanceUSD of one raw balance: set when prices has the symbol, else undefined
balanceUSD(balance, prices) ==
  IF balance.tokenSymbol \in DOMAIN prices
  THEN {Times(balance.balance, prices[balance.tokenSymbol])}
  ELSE {}

\* the InsertWalletBalance built for one raw balance
balanceData(userId, walletId, balance, prices) ==
  [ userId |-> userId, walletId |-> walletId, tokenSymbol |-> balance.tokenSymbol,
    tokenAddress |-> balance.tokenAddress, balance |-> balance.balance,
    balanceUSD |-> balanceUSD(balance, prices) ]

\* the (token symbol, balance) pairs and the row ids stored for a wallet
Pairs(balances, walletId) ==
  { <<b.tokenSymbol, b.balance>> : b \in referencing(balances, walletId) }

RowIds(balances, walletId) == { b.id : b \in referencing(balances, walletId) }

(* ------------------------- control flow helpers ------------------------ *)

\* res.status(status).json(...): the answer is on its way to the client
respond(r, status, error) ==
  [ Fresh EXCEPT !.pc = "respond", !.route = r.route, !.userId = r.userId,
                 !.walletId = r.walletId, !.log = r.log,
                 !.saved = IF status = 200 THEN r.saved ELSE << >>,
                 !.returned = IF status = 200 THEN r.returned ELSE {},
                 !.status = status, !.error = error ]

\* the seeding loop moves on to the next predefined wallet, or ends and the
\* route reads the wallets it answers with
nextWallet(r) ==
  LET cleared == [ r EXCEPT !.walletId = 0, !.network = "", !.address = "", !.fetcher = "",
                            !.balances = << >>, !.prices = NoPrices, !.j = 0,
                            !.existing = 0, !.saved = << >> ]
  IN IF r.i < Len(predefinedWallets)
     THEN [cleared EXCEPT !.pc = "init_create", !.i = r.i + 1]
     ELSE [cleared EXCEPT !.pc = "route_list", !.i = 0, !.inInit = FALSE]

\* what the seeding call did so far: per predefined wallet its creation and its
\* refresh, each with the error it ended with ("" when it succeeded)
logged(r, ev, error) ==
  [r EXCEPT !.log = Append(r.log, [ev |-> ev, network |-> predefinedWallets[r.i].network,
                                   error |-> error])]

\* fetchAndUpdateWalletBalances returns savedBalances to its caller
refreshReturn(r) ==
  IF r.inInit THEN nextWallet(logged(r, "refresh", ""))
  ELSE respond([r EXCEPT !.returned = Range(r.saved)], 200, "")

\* variant for comparison: the seeding has no catch inside its loop, the one around it ends it
refreshThrowEndsSeeding(r, error) ==
  IF r.inInit
  THEN [nextWallet(logged(r, "refresh", error)) EXCEPT !.pc = "route_list", !.i = 0,
                                                       !.inInit = FALSE]
  ELSE respond(r, 500, error)

\* variant for comparison: the route's catch answers the empty list
refreshThrowAnswersEmpty(r, error) ==
  IF r.inInit THEN nextWallet(logged(r, "refresh", error)) ELSE respond(r, 200, "")

\* fetchAndUpdateWalletBalances rethrows: the route answers 500, the seeding
\* loop's catch logs and goes on
refreshThrow(r, error) ==
  IF r.inInit THEN nextWallet(logged(r, "refresh", error)) ELSE respond(r, 500, error)

(* ------------------------------ requests ------------------------------ *)

tables == << connectedWallets, walletBalances, nextWalletId, nextBalanceId >>
env == << upstream, faults >>

\* a request is taken by the first free handler
accept(p) ==
  /\ h[p].pc = "idle"
  /\ \A q \in Handlers : q < p => h[q].pc # "idle"
  /\ started < MaxRequests
  /\ started' = started + 1
  /\ UNCHANGED aside

\* the wallet ids a request may name: those handed out so far and one more
Named == 1..(IF nextWalletId <= MaxWallets THEN nextWalletId ELSE MaxWallets)

\* GET /api/wallets/connected
StartConnected(p, userId) ==
  /\ accept(p)
  /\ h' = [h EXCEPT ![p] = [Fresh EXCEPT !.pc = "init_read", !.route = "connected",
                                         !.userId = userId]]
  /\ UNCHANGED << tables, env, lastRefresh >>

\* POST /api/wallets/connect; a body without network is answered 400 at once
StartConnect(p, userId, network) ==
  /\ accept(p)
  /\ LET r == [Fresh EXCEPT !.route = "connect", !.userId = userId, !.body = network]
     IN h' = [h EXCEPT ![p] = IF network = ""
                              THEN respond(r, 400, "Missing required fields")
                              ELSE [r EXCEPT !.pc = "connect_create"]]
  /\ UNCHANGED << tables, env, lastRefresh >>

\* DELETE /api/wallets/:walletId/disconnect
StartDisconnect(p, userId, walletId) ==
  /\ accept(p)
  /\ h' = [h EXCEPT ![p] = [Fresh EXCEPT !.pc = "disc_read", !.route = "disconnect",
                                         !.userId = userId, !.walletId = walletId]]
  /\ UNCHANGED << tables, env, lastRefresh >>

\* POST /api/wallets/:walletId/balances/refresh
StartRefresh(p, userId, walletId) ==
  /\ accept(p)
  /\ h' = [h EXCEPT ![p] = [Fresh EXCEPT !.pc = "lookup", !.route = "refresh",
                                         !.userId = userId, !.walletId = walletId]]
  /\ UNCHANGED << tables, env, lastRefresh >>

\* GET /api/wallets/:walletId/balances
StartBalances(p, userId, walletId) ==
  /\ accept(p)
  /\ h' = [h EXCEPT ![p] = [Fresh EXCEPT !.pc = "bal_read", !.route = "balances",
                                         !.userId = userId, !.walletId = walletId]]
  /\ UNCHANGED << tables, env, lastRefresh >>

\* GET /api/wallets/balances: the read without a wallet id
StartAllBalances(p, userId) ==
  /\ accept(p)
  /\ h' = [h EXCEPT ![p] = [Fresh EXCEPT !.pc = "bal_read", !.route = "balances",
                                         !.userId = userId]]
  /\ UNCHANGED << tables, env, lastRefresh >>

\* balances = await storage.getWalletBalances(userId, walletId); res.json(balances)
BalRead(p) ==
  /\ h[p].pc = "bal_read"
  /\ h' = [h EXCEPT ![p] =
             respond([@ EXCEPT !.returned =
                        getWalletBalances(walletBalances, h[p].userId, h[p].walletId)],
                     200, "")]
  /\ UNCHANGED << tables, env, started, aside, lastRefresh >>

(* ------------------- initializeWalletWithAddresses -------------------- *)

\* variant for comparison: seeding unless one of the predefined addresses is connected
needsSeedingUnlessPredefined(existingWallets) ==
  \A w \in existingWallets :
    w.walletAddress \notin {predefinedWallets[k].address : k \in 1..Len(predefinedWallets)}

\* if (existingWallets.length === 0)
needsSeeding(existingWallets) == Cardinality(existingWallets) = 0

\* existingWallets = await storage.getConnectedWallets(userId)
InitRead(p) ==
  /\ h[p].pc = "init_read"
  /\ h' = [h EXCEPT ![p] =
             IF needsSeeding(getConnectedWallets(connectedWallets, h[p].userId))
             THEN [@ EXCEPT !.pc = "init_create", !.inInit = TRUE, !.i = 1]
             ELSE [@ EXCEPT !.pc = "route_list"]]
  /\ UNCHANGED << tables, env, started, aside, lastRefresh >>

\* connectedWallet = await storage.createConnectedWallet(predefined wallet i),
\* then the refresh of the fetchable networks starts
InitCreate(p) ==
  /\ h[p].pc = "init_create"
  /\ nextWalletId <= MaxWallets
  /\ LET wallet == predefinedWallets[h[p].i]
         r == logged(h[p], "create", "")
     IN /\ connectedWallets' = connectedWallets \cup
             { createConnectedWallet(nextWalletId, h[p].userId, "manual",
                                     wallet.address, "1", wallet.network) }
        /\ h' = [h EXCEPT ![p] =
                   IF wallet.network \in SeedFetchable
                   THEN [r EXCEPT !.pc = "lookup", !.walletId = nextWalletId]
                   ELSE nextWallet(r)]
  /\ nextWalletId' = nextWalletId + 1
  /\ UNCHANGED << walletBalances, nextBalanceId, env, started, aside, lastRefresh >>

\* wallets = await storage.getConnectedWallets(userId); res.json(wallets)
RouteList(p) ==
  /\ h[p].pc = "route_list"
  /\ h' = [h EXCEPT ![p] =
             respond([@ EXCEPT !.returned = getConnectedWallets(connectedWallets, h[p].userId)],
                     200, "")]
  /\ UNCHANGED << tables, env, started, aside, lastRefresh >>

(* ------------------------- connect, disconnect ------------------------ *)

\* await storage.createConnectedWallet({id: nanoid(), ..., network.toLowerCase()})
ConnectCreate(p) ==
  /\ h[p].pc = "connect_create"
  /\ nextWalletId <= MaxWallets
  /\ connectedWallets' = connectedWallets \cup
       { createConnectedWallet(nextWalletId, h[p].userId, "metamask", "0xUser", "1",
                               toLowerCase(h[p].body)) }
  /\ nextWalletId' = nextWalletId + 1
  /\ h' = [h EXCEPT ![p] =
             respond([@ EXCEPT !.walletId = nextWalletId,
                               !.returned = find(connectedWallets', nextWalletId)], 200, "")]
  /\ UNCHANGED << walletBalances, nextBalanceId, env, started, aside, lastRefresh >>

\* variant for comparison: the wallet is looked up among the wallets of every user
DiscReadAnyUser(p) ==
  /\ h[p].pc = "disc_read"
  /\ h' = [h EXCEPT ![p] =
             IF find(connectedWallets, h[p].walletId) = {}
             THEN respond(@, 404, "Wallet not found")
             ELSE [@ EXCEPT !.pc = "disc_delWallet"]]
  /\ UNCHANGED << tables, env, started, aside, lastRefresh >>

\* wallets = await storage.getConnectedWallets(userId); 404 unless the id is found
DiscRead(p) ==
  /\ h[p].pc = "disc_read"
  /\ h' = [h EXCEPT ![p] =
             IF find(getConnectedWallets(connectedWallets, h[p].userId), h[p].walletId) = {}
             THEN respond(@, 404, "Wallet not found")
             ELSE [@ EXCEPT !.pc = "disc_delWallet"]]
  /\ UNCHANGED << tables, env, started, aside, lastRefresh >>

\* await storage.deleteConnectedWallet(walletId)
DiscDeleteWallet(p) ==
  /\ h[p].pc = "disc_delWallet"
  /\ IF \/ deleteConnectedWalletRefused(walletBalances, h[p].walletId)
        \/ referencedByTrade(tradingHistory, h[p].walletId)
     THEN /\ h' = [h EXCEPT ![p] = respond(@, 500, "ForeignKey")]
          /\ UNCHANGED << connectedWallets, lastRefresh >>
     ELSE /\ connectedWallets' = connectedWallets \ find(connectedWallets, h[p].walletId)
          /\ h' = [h EXCEPT ![p].pc = "disc_delBalances"]
          /\ lastRefresh' = [lastRefresh EXCEPT ![h[p].walletId] = {}]
  /\ UNCHANGED << walletBalances, nextWalletId, nextBalanceId, env, started, aside >>

\* await storage.deleteWalletBalances(walletId); res.json(...)
DiscDeleteBalances(p) ==
  /\ h[p].pc = "disc_delBalances"
  /\ walletBalances' = deleteWalletBalances(walletBalances, h[p].walletId)
  /\ h' = [h EXCEPT ![p] = respond(@, 200, "")]
  /\ lastRefresh' = [lastRefresh EXCEPT ![h[p].walletId] = {}]
  /\ UNCHANGED << connectedWallets, nextWalletId, nextBalanceId, env, started, aside >>

(* -------------------- fetchAndUpdateWalletBalances -------------------- *)

\* what a completed refresh of a wallet fetched and left in the table
completed(r, balances) ==
  { [ balances |-> r.balances, pairs |-> Pairs(balances, r.walletId),
      ids |-> RowIds(balances, r.walletId) ] }

\* variant for comparison: a lookup that finds no wallet removes the rows stored
\* under the wallet id
LookupClearingUnknown(p) ==
  /\ h[p].pc = "lookup"
  /\ LET wallet == find(getConnectedWallets(connectedWallets, h[p].userId), h[p].walletId)
         w == CHOOSE x \in wallet : TRUE
     IN /\ h' = [h EXCEPT ![p] =
                   IF wallet = {} THEN refreshThrow(@, "Wallet not found")
                   ELSE IF dispatch(w.network) = "unsupported"
                        THEN refreshThrow(@, "Unsupported network")
                        ELSE [@ EXCEPT !.pc = "fetch", !.network = w.network,
                                       !.address = w.walletAddress,
                                       !.fetcher = dispatch(w.network)]]
        /\ walletBalances' = IF wallet = {}
                             THEN deleteWalletBalances(walletBalances, h[p].walletId)
                             ELSE walletBalances
  /\ UNCHANGED << connectedWallets, nextWalletId, nextBalanceId, env, started, aside,
                  lastRefresh >>

\* wallets = await storage.getConnectedWallets(userId); find; switch on network
Lookup(p) ==
  /\ h[p].pc = "lookup"
  /\ LET wallet == find(getConnectedWallets(connectedWallets, h[p].userId), h[p].walletId)
         w == CHOOSE x \in wallet : TRUE
     IN h' = [h EXCEPT ![p] =
                IF wallet = {} THEN refreshThrow(@, "Wallet not found")
                ELSE IF dispatch(w.network) = "unsupported"
                     THEN refreshThrow(@, "Unsupported network")
                     ELSE [@ EXCEPT !.pc = "fetch", !.network = w.network,
                                    !.address = w.walletAddress,
                                    !.fetcher = dispatch(w.network)]]
  /\ UNCHANGED << tables, env, started, aside, lastRefresh >>

\* variant for comparison: a fetcher whose call threw is called again until none throws
FetchRetrying(p) ==
  /\ h[p].pc = "fetch"
  /\ h' = [h EXCEPT ![p] =
             IF upstream.throws # {} THEN @
             ELSE [@ EXCEPT !.pc = "price",
                            !.balances = IF h[p].fetcher = "evm"
                                         THEN fetchEVMBalance(h[p].address, h[p].network,
                                                              upstream)
                                         ELSE fetchTronBalance(h[p].address, upstream)]]
  /\ UNCHANGED << tables, env, started, aside, lastRefresh >>

\* balances = await fetchEVMBalance(...) or await fetchTronBalance(...)
Fetch(p) ==
  /\ h[p].pc = "fetch"
  /\ h' = [h EXCEPT ![p] =
             [@ EXCEPT !.pc = "price",
                       !.balances = IF h[p].fetcher = "evm"
                                    THEN fetchEVMBalance(h[p].address, h[p].network, upstream)
                                    ELSE fetchTronBalance(h[p].address, upstream)]]
  /\ UNCHANGED << tables, env, started, aside, lastRefresh >>

\* prices = await getTokenPrices(symbols); with nothing fetched the loop is
\* empty and the call returns
Price(p) ==
  /\ h[p].pc = "price"
  /\ LET r == [h[p] EXCEPT !.prices = getTokenPrices(symbolsOf(h[p].balances), upstream)]
     IN IF Len(r.balances) = 0
        THEN /\ h' = [h EXCEPT ![p] = refreshReturn(r)]
             /\ lastRefresh' = [lastRefresh EXCEPT ![r.walletId] = completed(r, walletBalances)]
        ELSE /\ h' = [h EXCEPT ![p] = [r EXCEPT !.pc = "upsert_select", !.j = 1]]
             /\ UNCHANGED lastRefresh
  /\ UNCHANGED << tables, env, started, aside >>

\* the InsertWalletBalance of the loop's current raw balance
current(r) == balanceData(r.userId, r.walletId, r.balances[r.j], r.prices)

\* upsertWalletBalance, first await: existing = select ...; existing[0] is any
\* of the matching rows (the select has no ORDER BY)
UpsertSelect(p) ==
  /\ h[p].pc = "upsert_select"
  /\ LET existing == selectExisting(walletBalances, current(h[p]))
     IN \E id \in (IF existing = {} THEN {0} ELSE {b.id : b \in existing}) :
          h' = [h EXCEPT ![p] = [@ EXCEPT !.pc = "upsert_write", !.existing = id]]
  /\ UNCHANGED << tables, env, started, aside, lastRefresh >>

\* variant for comparison: the insert under a unique index on (user, wallet, token symbol),
\* which keeps the row already there
writtenUnique(balances, existing, id, balance) ==
  IF existing # 0 THEN updateBalance(balances, existing, balance)
  ELSE IF selectExisting(balances, balance) # {} THEN balances
  ELSE insertBalance(balances, id, balance)

\* variant for comparison: the write also removes the wallet's rows of other tokens
writtenAfterClearing(balances, existing, id, balance) ==
  LET kept == { b \in balances : b.walletId # balance.walletId
                                   \/ b.tokenSymbol = balance.tokenSymbol }
  IN IF existing # 0 THEN updateBalance(kept, existing, balance)
     ELSE insertBalance(kept, id, balance)

\* the table after the write of upsertWalletBalance
written(balances, existing, id, balance) ==
  IF existing # 0 THEN updateBalance(balances, existing, balance)
  ELSE insertBalance(balances, id, balance)

\* upsertWalletBalance, second await: update the row read, or insert; then the
\* loop goes on or the call returns
UpsertWrite(p) ==
  /\ h[p].pc = "upsert_write"
  /\ LET r == h[p]
         id == IF r.existing # 0 THEN r.existing ELSE nextBalanceId
     IN IF r.existing = 0 /\ insertRefused(connectedWallets, current(r))
        THEN /\ h' = [h EXCEPT ![p] = refreshThrow(r, "ForeignKey")]
             /\ lastRefresh' = [lastRefresh EXCEPT ![r.walletId] = {}]
             /\ UNCHANGED << walletBalances, nextBalanceId >>
        ELSE /\ r.existing = 0 => nextBalanceId <= MaxRows
             /\ walletBalances' = written(walletBalances, r.existing, nextBalanceId, current(r))
             /\ nextBalanceId' = IF r.existing = 0 THEN nextBalanceId + 1 ELSE nextBalanceId
             /\ LET after == [r EXCEPT !.saved = @ \o
                                [k \in 1..Cardinality({b \in walletBalances' : b.id = id}) |->
                                   CHOOSE b \in walletBalances' : b.id = id],
                                !.existing = 0]
                IN IF r.j < Len(r.balances)
                   THEN /\ h' = [h EXCEPT ![p] = [after EXCEPT !.pc = "upsert_select",
                                                               !.j = r.j + 1]]
                        /\ UNCHANGED lastRefresh
                   ELSE /\ h' = [h EXCEPT ![p] = refreshReturn(after)]
                        /\ lastRefresh' = [lastRefresh EXCEPT ![r.walletId] =
                                             completed(r, walletBalances')]
  /\ UNCHANGED << connectedWallets, nextWalletId, env, started, aside >>

(* ------------------------------ failures ------------------------------ *)

StoragePcs == { "init_read", "init_create", "route_list", "connect_create", "disc_read",
                "disc_delWallet", "disc_delBalances", "lookup", "upsert_select",
                "upsert_write", "bal_read" }

\* the storage operation a handler awaits fails; the catch block around it runs
StorageFault(p) ==
  /\ h[p].pc \in StoragePcs
  /\ faults < MaxFaults
  /\ faults' = faults + 1
  /\ LET r == h[p] IN
     h' = [h EXCEPT ![p] =
             CASE r.pc = "init_read" -> [r EXCEPT !.pc = "route_list"]
               [] r.pc = "init_create" -> nextWallet(logged(r, "create", "Storage"))
               [] r.pc \in {"lookup", "upsert_select", "upsert_write"} ->
                    refreshThrow(r, "Storage")
               [] OTHER -> respond(r, 500, "Storage")]
  /\ lastRefresh' = IF h[p].pc \in {"upsert_select", "upsert_write"}
                    THEN [lastRefresh EXCEPT ![h[p].walletId] = {}]
                    ELSE lastRefresh
  /\ UNCHANGED << tables, upstream, started, aside >>

\* the request is over: the handler is free for the next one
Finish(p) ==
  /\ h[p].pc = "respond"
  /\ h' = [h EXCEPT ![p] = Fresh]
  /\ UNCHANGED << tables, env, started, aside, lastRefresh >>

\* the third-party APIs start answering something else
UpstreamChange ==
  /\ upstream' \in UpstreamStates \ {upstream}
  /\ UNCHANGED << tables, h, started, aside, faults, lastRefresh >>

(* --------------------------- specifications --------------------------- *)

Start(p) ==
  \/ \E u \in Users : StartConnected(p, u)
  \/ \E u \in Users, n \in ConnectNetworks : StartConnect(p, u, n)
  \/ \E u \in Users, w \in Named : StartDisconnect(p, u, w)
  \/ \E u \in Users, w \in Named : StartRefresh(p, u, w)

Step(p) ==
  \/ InitRead(p) \/ InitCreate(p) \/ RouteList(p)
  \/ ConnectCreate(p)
  \/ DiscRead(p) \/ DiscDeleteWallet(p) \/ DiscDeleteBalances(p)
  \/ Lookup(p) \/ Fetch(p) \/ Price(p) \/ UpsertSelect(p) \/ UpsertWrite(p)
  \/ Finish(p)

Next == \E p \in Handlers : Start(p) \/ Step(p)

\* requests arrive while others are in flight; storage and upstream are steady
Spec == Init /\ [][Next]_vars

FaultNext == \E p \in Handlers : Start(p) \/ Step(p) \/ StorageFault(p)

\* as Spec, and storage operations may fail
FaultSpec == Init /\ [][FaultNext]_vars

AllIdle == \A p \in Handlers : h[p].pc = "idle"

SerialNext ==
  \/ AllIdle /\ \E p \in Handlers : Start(p)
  \/ \E p \in Handlers : Step(p) \/ StorageFault(p)
  \/ UpstreamChange

\* each request arrives after the one before it was answered; storage
\* operations may fail and the upstream answers may change between calls
SerialSpec == InitStored /\ [][SerialNext]_vars

StartRead(p) ==
  \/ \E u \in Users, w \in Named : StartBalances(p, u, w)
  \/ \E u \in Users : StartAllBalances(p, u)

ReadNext == \E p \in Handlers : Start(p) \/ StartRead(p) \/ Step(p) \/ BalRead(p)

\* as Spec, with the two balance reads among the requests, over the rows
\* overlapping refreshes may have left
ReadSpec == InitStored /\ [][ReadNext]_vars

(* --------------------------- GET /api/portfolio ----------------------- *)

\* defaultAddresses of the portfolio route, in loop order
defaultAddresses ==
  << [network |-> "ETH", address |-> "0xB36EDa1ffC696FFba07D4Be5cd249FE5E0118130"],
     [network |-> "BTC", address |-> "bc1qv4fffwt8ux3k33n2dms5cdvuh6suc0gtfevxzu"],
     [network |-> "BNB", address |-> "0xB36EDa1ffC696FFba07D4Be5cd249FE5E0118130"],
     [network |-> "USDT_TRON", address |-> "TSt7yoNwGYRbtMMfkSAHE6dPs1cd9rxcco"] >>

\* storage.getPortfolio(userId): the rows the select finds; the caller takes
\* the first of them
getPortfolio(rows, userId) == {x \in rows : x.userId = userId}

\* storage.createPortfolio: the row inserted under a fresh id, all balances "0"
createPortfolio(id, userId) ==
  [ id |-> id, userId |-> userId, totalBalance |-> "0", btcBalance |-> "0",
    ethBalance |-> "0", bnbBalance |-> "0", usdtBalance |-> "0" ]

\* storage.createWalletAddress: the row inserted under a fresh id
createWalletAddress(id, userId, addr) ==
  [ id |-> id, userId |-> userId, network |-> addr.network, address |-> addr.address ]

walletSide == << tables, env, lastRefresh, call, ledger >>

StartPortfolio(p, userId) ==
  /\ accept(p)
  /\ h' = [h EXCEPT ![p] = [Fresh EXCEPT !.pc = "pf_read", !.route = "portfolio",
                                         !.userId = userId]]
  /\ UNCHANGED walletSide

\* let portfolio = await storage.getPortfolio(userId); if (!portfolio) ...
PfRead(p) ==
  /\ h[p].pc = "pf_read"
  /\ LET found == getPortfolio(portfolios, h[p].userId)
     IN IF found = {}
        THEN h' = [h EXCEPT ![p].pc = "pf_create"]
        ELSE \E portfolio \in found :
               h' = [h EXCEPT ![p] = respond([@ EXCEPT !.returned = {portfolio}], 200, "")]
  /\ UNCHANGED << walletSide, started, portfolios, walletAddresses >>

\* portfolio = await storage.createPortfolio({userId, totalBalance: "0", ...})
PfCreate(p) ==
  /\ h[p].pc = "pf_create"
  /\ LET portfolio == createPortfolio(Cardinality(portfolios) + 1, h[p].userId)
     IN /\ portfolios' = portfolios \cup {portfolio}
        /\ h' = [h EXCEPT ![p] = [@ EXCEPT !.pc = "pf_address", !.i = 1,
                                           !.returned = {portfolio}]]
  /\ UNCHANGED << walletSide, started, walletAddresses >>

\* for (const addr of defaultAddresses) await storage.createWalletAddress(addr);
\* after the last one res.json(portfolio)
PfAddress(p) ==
  /\ h[p].pc = "pf_address"
  /\ walletAddresses' = walletAddresses \cup
       { createWalletAddress(Cardinality(walletAddresses) + 1, h[p].userId,
                             defaultAddresses[h[p].i]) }
  /\ h' = [h EXCEPT ![p] = IF h[p].i < Len(defaultAddresses)
                           THEN [@ EXCEPT !.i = h[p].i + 1]
                           ELSE respond(@, 200, "")]
  /\ UNCHANGED << walletSide, started, portfolios >>

PortfolioNext ==
  \E p \in Handlers :
    \/ \E u \in Users : StartPortfolio(p, u)
    \/ PfRead(p) \/ PfCreate(p) \/ PfAddress(p)
    \/ Finish(p)

PortfolioInit == StartedUnder({}, {}, {[world |-> "a", explorer |-> "ok", throws |-> {}, price |-> "ok"]})

\* portfolio requests arrive while others are in flight
PortfolioSpec == PortfolioInit /\ [][PortfolioNext]_vars

(* --------------------------- GET /api/market-data --------------------- *)

\* one entry of the body CoinGecko answers to /simple/price with
\* include_24hr_vol and include_24hr_change: usd, usd_24h_vol and
\* usd_24h_change are sets of 0 or 1 numbers (a field may be missing)
quote(id, usd, vol, change) ==
  [id |-> id, usd |-> Norm(usd, 0), usd_24h_vol |-> vol, usd_24h_change |-> change]

\* the answers of the price API to the route's request: non-OK, empty, or the
\* entries of the ids it knows, in the order Object.entries walks them
MarketResponses ==
  { [ok |-> FALSE, data |-> << >>],
    [ok |-> TRUE,  data |-> << >>],
    [ok |-> TRUE,  data |-> << quote("bitcoin", 60000, {Norm(10, 0)}, {Norm(1, 0)}),
                               quote("ethereum", 2000, {Norm(5, 0)}, {}) >>],
    [ok |-> TRUE,  data |-> << quote("bitcoin", 61000, {Norm(11, 0)}, {}),
                               quote("ethereum", 2000, {}, {Norm(2, 0)}) >>] }

\* values.usd_24h_vol.toString() throws when the entry has no usd_24h_vol
entryThrows(values) == values.usd_24h_vol = {}

\* the InsertMarketData the route builds of an entry;
\* values.usd_24h_change?.toString() || "0"
marketEntry(values) ==
  [ symbol |-> values.id, price |-> values.usd,
    volume24h |-> CHOOSE v \in values.usd_24h_vol : TRUE,
    change24h |-> IF values.usd_24h_change = {} THEN Norm(0, 0)
                  ELSE CHOOSE c \in values.usd_24h_change : TRUE ]

\* variant for comparison: the insert with onConflictDoNothing
upsertMarketDataKeepingFirst(rows, id, data) ==
  IF \E row \in rows : row.symbol = data.symbol THEN rows
  ELSE rows \cup { [ id |-> id, symbol |-> data.symbol, price |-> data.price,
                     volume24h |-> data.volume24h, change24h |-> data.change24h ] }

\* storage.upsertMarketData(data): one statement, insert ... on conflict
\* (symbol) do update set price, volume_24h, change_24h
upsertMarketData(rows, id, data) ==
  IF \E row \in rows : row.symbol = data.symbol
  THEN { IF row.symbol = data.symbol
         THEN [row EXCEPT !.price = data.price, !.volume24h = data.volume24h,
                          !.change24h = data.change24h]
         ELSE row : row \in rows }
  ELSE rows \cup { [ id |-> id, symbol |-> data.symbol, price |-> data.price,
                     volume24h |-> data.volume24h, change24h |-> data.change24h ] }

marketSide == << tables, env, lastRefresh, portfolios, walletAddresses, call >>

StartMarket(p) ==
  /\ accept(p)
  /\ h' = [h EXCEPT ![p] = [Fresh EXCEPT !.pc = "md_fetch", !.route = "market"]]
  /\ UNCHANGED << tables, env, lastRefresh >>

\* response = await fetch(...); if (!response.ok) throw; data = await response.json()
MdFetch(p) ==
  /\ h[p].pc = "md_fetch"
  /\ \E response \in MarketResponses :
       h' = [h EXCEPT ![p] =
               IF ~response.ok THEN respond(@, 500, "Failed to fetch market data")
               ELSE IF Len(response.data) = 0 THEN respond(@, 200, "")
               ELSE [@ EXCEPT !.pc = "md_upsert", !.quotes = response.data, !.j = 1]]
  /\ UNCHANGED << marketSide, started, ledger >>

\* marketDataRecord = await storage.upsertMarketData({...}); marketDataArray.push;
\* after the last entry res.json(marketDataArray)
MdUpsert(p) ==
  /\ h[p].pc = "md_upsert"
  /\ LET r == h[p]
         values == r.quotes[r.j]
     IN IF entryThrows(values)
        THEN /\ h' = [h EXCEPT ![p] = respond(r, 500, "TypeError")]
             /\ UNCHANGED marketData
        ELSE /\ marketData' = upsertMarketData(marketData, Cardinality(marketData) + 1,
                                               marketEntry(values))
             /\ LET after == [r EXCEPT !.returned = @ \cup
                                {row \in marketData' : row.symbol = values.id}]
                IN h' = [h EXCEPT ![p] = IF r.j < Len(r.quotes)
                                         THEN [after EXCEPT !.j = r.j + 1]
                                         ELSE respond(after, 200, "")]
  /\ UNCHANGED << marketSide, started, tradingHistory >>

MarketNext ==
  \E p \in Handlers : StartMarket(p) \/ MdFetch(p) \/ MdUpsert(p) \/ Finish(p)

MarketInit ==
  StartedUnder({}, {}, {[world |-> "a", explorer |-> "ok", throws |-> {}, price |-> "ok"]})

\* market-data requests arrive while others are in flight
MarketSpec == MarketInit /\ [][MarketNext]_vars

(* --------------------------- trading history -------------------------- *)
(* A trading_history row is [id, userId, walletId, createdAt]; the columns *)
(* of the trade itself (pair, type, amount, ...) are written once by the   *)
(* insert and read back as they are.                                       *)

\* .limit(50)
HistoryLimit == 50

\* the rows an earlier run left: of u1 one short of the limit, the two oldest
\* created at the same time and each other at a later time than the one
\* before, and one of u2
StoredTrades ==
  { [id |-> k, userId |-> "u1", walletId |-> 0, createdAt |-> IF k = 1 THEN k + 1 ELSE k] :
      k \in 1..(HistoryLimit - 1) }
  \cup { [id |-> HistoryLimit, userId |-> "u2", walletId |-> 0, createdAt |-> HistoryLimit] }

\* the latest created_at of the table (0 when it is empty)
latest(trades) ==
  IF trades = {} THEN 0
  ELSE (CHOOSE t \in trades : \A o \in trades : o.createdAt <= t.createdAt).createdAt

\* storage.createTradingRecord(trade): the row inserted under a fresh id, with
\* created_at defaulting to now()
createTradingRecord(trades, trade, now) ==
  trades \cup { [ id |-> Cardinality(trades) + 1, userId |-> trade.userId,
                  walletId |-> trade.walletId, createdAt |-> now ] }

\* row o comes before row r under ORDER BY created_at DESC; rows of equal
\* created_at come in the order the database happens to produce ("asc" or
\* "desc" by id)
precedes(o, r, ties) ==
  \/ o.createdAt > r.createdAt
  \/ /\ o.createdAt = r.createdAt
     /\ IF ties = "asc" THEN o.id < r.id ELSE o.id > r.id

\* variant for comparison: ORDER BY created_at ASC
getTradingHistoryOldestFirst(trades, userId, ties) ==
  LET mine == {t \in trades : t.userId = userId}
      rank == [r \in mine |-> Cardinality({o \in mine : precedes(r, o, ties)}) + 1]
      n == IF Cardinality(mine) < HistoryLimit THEN Cardinality(mine) ELSE HistoryLimit
  IN [k \in 1..n |-> CHOOSE r \in mine : rank[r] = k]

\* storage.getTradingHistory(userId): where user_id = userId, order by
\* created_at desc, limit 50
getTradingHistory(trades, userId, ties) ==
  LET mine == {t \in trades : t.userId = userId}
      rank == [r \in mine |-> Cardinality({o \in mine : precedes(o, r, ties)}) + 1]
      n == IF Cardinality(mine) < HistoryLimit THEN Cardinality(mine) ELSE HistoryLimit
  IN [k \in 1..n |-> CHOOSE r \in mine : rank[r] = k]

tradeSide == << tables, env, lastRefresh, portfolios, walletAddresses, call, marketData >>

\* a caller of the storage inserts a trade of a user, with no wallet or with
\* one of the wallet ids handed out so far; the insert is refused by the
\* foreign key trading_history.wallet_id when no such wallet is left
CreateTrade(userId, walletId) ==
  /\ Cardinality(tradingHistory \ StoredTrades) < MaxTrades
  /\ walletId # 0 => find(connectedWallets, walletId) # {}
  /\ \E now \in {latest(tradingHistory), latest(tradingHistory) + 1} :
       tradingHistory' = createTradingRecord(tradingHistory,
                           [userId |-> userId, walletId |-> walletId], now)
  /\ UNCHANGED << tradeSide, h, started >>

\* GET /api/trading-history, one such request at a time
StartHistory(p, userId) ==
  /\ accept(p)
  /\ \A q \in Handlers : h[q].route # "history"
  /\ h' = [h EXCEPT ![p] = [Fresh EXCEPT !.pc = "hist_read", !.route = "history",
                                         !.userId = userId]]
  /\ UNCHANGED << tables, env, lastRefresh >>

\* history = await storage.getTradingHistory(userId); res.json(history)
HistRead(p) ==
  /\ h[p].pc = "hist_read"
  /\ \E ties \in {"asc", "desc"} :
       h' = [h EXCEPT ![p] =
               [respond(@, 200, "") EXCEPT
                  !.history = getTradingHistory(tradingHistory, h[p].userId, ties)]]
  /\ UNCHANGED << tradeSide, started, tradingHistory >>

\* a caller of the storage deletes a connected wallet: storage.deleteConnectedWallet,
\* refused by the foreign keys while a balance or a trade references the wallet
DeleteWallet(walletId) ==
  /\ find(connectedWallets, walletId) # {}
  /\ ~deleteConnectedWalletRefused(walletBalances, walletId)
  /\ ~referencedByTrade(tradingHistory, walletId)
  /\ connectedWallets' = connectedWallets \ find(connectedWallets, walletId)
  /\ UNCHANGED << walletBalances, nextWalletId, nextBalanceId, env, lastRefresh, h, started,
                  aside >>

TradeNext ==
  \/ \E u \in Users, w \in 0..1 : CreateTrade(u, w)
  \/ \E w \in WalletIds : DeleteWallet(w)
  \/ \E p \in Handlers :
       \/ \E u \in Users : StartHistory(p, u)
       \/ HistRead(p)
       \/ Finish(p)

\* the trades start empty or as an earlier run left them
TradeInit ==
  \E wallets \in StoredWallets : \E trades \in {{}, StoredTrades} :
    StartedWith(wallets, {},
                {[world |-> "a", explorer |-> "ok", throws |-> {}, price |-> "ok"]}, trades)

\* trades are inserted and wallets deleted while history reads are in flight
TradeSpec == TradeInit /\ [][TradeNext]_vars

(* ------------------ upsertWalletBalance called alone ------------------ *)

\* the records a caller of the storage passes: of either user, with no wallet
\* id or that of wallet 1, with or without a USD value
UpsertInputs ==
  [ userId : Users, walletId : {0, 1}, tokenSymbol : {"MATIC", "USDT"},
    tokenAddress : {NoAddress}, balance : {Norm(7, 0), Norm(8, 0)},
    balanceUSD : {{}, {Norm(7, 0)}} ]

\* storage.upsertWalletBalance(balance) is called
StartUpsert(p, balance) ==
  /\ accept(p)
  /\ h' = [h EXCEPT ![p] = [Fresh EXCEPT !.pc = "ups_select", !.route = "upsert",
                                         !.userId = balance.userId,
                                         !.walletId = balance.walletId,
                                         !.data = << balance >>]]
  /\ UNCHANGED << tables, env, lastRefresh >>

\* first await: existing = select ... where user_id, wallet_id, token_symbol
UpsSelect(p) ==
  /\ h[p].pc = "ups_select"
  /\ LET existing == selectExisting(walletBalances, h[p].data[1])
     IN \E id \in (IF existing = {} THEN {0} ELSE {b.id : b \in existing}) :
          h' = [h EXCEPT ![p] = [@ EXCEPT !.pc = "ups_write", !.existing = id]]
  /\ UNCHANGED << tables, env, started, aside, lastRefresh >>

\* second await: update ... where id = existing[0].id returning, or insert
\* returning; the row is returned to the caller
UpsWrite(p) ==
  /\ h[p].pc = "ups_write"
  /\ LET r == h[p]
         id == IF r.existing # 0 THEN r.existing ELSE nextBalanceId
     IN IF r.existing = 0 /\ insertRefused(connectedWallets, r.data[1])
        THEN /\ h' = [h EXCEPT ![p] = respond(r, 500, "ForeignKey")]
             /\ UNCHANGED << walletBalances, nextBalanceId >>
        ELSE /\ r.existing = 0 => nextBalanceId <= MaxRows
             /\ walletBalances' = written(walletBalances, r.existing, nextBalanceId, r.data[1])
             /\ nextBalanceId' = IF r.existing = 0 THEN nextBalanceId + 1 ELSE nextBalanceId
             /\ h' = [h EXCEPT ![p] =
                        respond([r EXCEPT !.returned = {b \in walletBalances' : b.id = id}],
                                200, "")]
  /\ UNCHANGED << connectedWallets, nextWalletId, env, started, aside, lastRefresh >>

UpsertNext ==
  \E p \in Handlers :
    \/ \E balance \in UpsertInputs : StartUpsert(p, balance)
    \/ UpsSelect(p) \/ UpsWrite(p)
    \/ Finish(p)

\* calls of upsertWalletBalance, one after another or overlapping, over an
\* empty table or the rows overlapping refreshes left
UpsertSpec == InitStored /\ [][UpsertNext]_vars

(* -------------- the fetchers and the price client alone --------------- *)
(* One invocation of a fetcher, of getTokenPrices, or of the three steps   *)
(* fetch, price, build of fetchAndUpdateWalletBalances without the storage, *)
(* against every upstream behaviour.                                       *)

CallUpstreams ==
  [ world : {"a", "b", "empty", "twice"}, explorer : {"ok", "rejected", "down"},
    throws : SUBSET Calls, price : {"ok", "fail", "throw", "unparsable", "all"} ]

\* symbols a caller may pass to getTokenPrices: of the table, outside it, and
\* CoinGecko ids
AskedSymbols == {"ETH", "USDT", "DOGE", "tether", "dogecoin"}

SymbolLists ==
  UNION { [1..n -> AskedSymbols] : n \in 0..MaxSymbols }

CallInit == StartedUnder({}, {}, CallUpstreams)

rest == << tables, upstream, h, started, faults, lastRefresh, portfolios, walletAddresses,
           ledger >>

\* balances = await fetchEVMBalance(address, network)
CallFetchEVM(network) ==
  /\ call.op = "none"
  /\ call' = [call EXCEPT !.op = "fetched", !.network = network,
                          !.balances = fetchEVMBalance("0xUser", network, upstream),
                          !.issued = callsOfEVM(network, upstream)]
  /\ UNCHANGED rest

\* balances = await fetchTronBalance(address)
CallFetchTron ==
  /\ call.op = "none"
  /\ call' = [call EXCEPT !.op = "fetched", !.network = "tron",
                          !.balances = fetchTronBalance("TUser", upstream),
                          !.issued = callsOfTron(upstream)]
  /\ UNCHANGED rest

\* prices = await getTokenPrices(symbols), with symbols of the caller's choice
CallPrices(symbols) ==
  /\ call.op = "none"
  /\ call' = [call EXCEPT !.op = "priced", !.symbols = symbols,
                          !.prices = getTokenPrices(symbols, upstream)]
  /\ UNCHANGED rest

\* prices = await getTokenPrices(symbols), with the symbols of the fetched balances
CallPricesOfFetched ==
  /\ call.op = "fetched"
  /\ call' = [call EXCEPT !.op = "priced", !.symbols = symbolsOf(call.balances),
                          !.prices = getTokenPrices(symbolsOf(call.balances), upstream)]
  /\ UNCHANGED rest

\* the balanceData of every fetched balance, as the loop builds them
CallBalanceData ==
  /\ call.op = "priced"
  /\ Len(call.balances) > 0
  /\ call' = [call EXCEPT !.op = "built",
                          !.data = [k \in 1..Len(call.balances) |->
                                      balanceData("u1", 1, call.balances[k], call.prices)]]
  /\ UNCHANGED rest

CallNext ==
  \/ \E network \in {"ethereum", "bsc", "polygon"} : CallFetchEVM(network)
  \/ CallFetchTron
  \/ \E symbols \in SymbolLists : CallPrices(symbols)
  \/ CallPricesOfFetched
  \/ CallBalanceData

CallSpec == CallInit /\ [][CallNext]_vars

(* ------------------ refreshes while the price API fails --------------- *)

PriceFailStates ==
  { [world |-> "a", explorer |-> "ok", throws |-> {}, price |-> f] :
      f \in {"fail", "throw", "unparsable"} }

PriceFailInit == \E wallets \in StoredWallets : StartedUnder(wallets, {}, PriceFailStates)

\* as Spec, with a price API that fails in one of its three ways
PriceFailSpec == PriceFailInit /\ [][Next]_vars

(* ------------- refreshes while the price answers change --------------- *)

\* CoinGecko answers entries under the ids of symbolMapping, or no longer
\* answers, while the holdings change too
PriceTurns ==
  { [world |-> "a", explorer |-> "ok", throws |-> {}, price |-> "all"],
    [world |-> "b", explorer |-> "ok", throws |-> {}, price |-> "fail"] }

\* the price API and the chains start answering the other way
PriceTurn ==
  /\ upstream' \in PriceTurns \ {upstream}
  /\ UNCHANGED << tables, h, started, aside, faults, lastRefresh >>

RepriceInit == \E wallets \in StoredWallets : StartedUnder(wallets, {}, PriceTurns)

RepriceNext ==
  \/ AllIdle /\ \E p \in Handlers : Start(p)
  \/ \E p \in Handlers : Step(p)
  \/ PriceTurn

\* each request arrives after the one before it was answered, and between two
\* calls the prices may appear or disappear
RepriceSpec == RepriceInit /\ [][RepriceNext]_vars

(* -------------------- the client's connect functions ------------------ *)

\* SUPPORTED_NETWORKS of the client, in the order Object.values walks them
SUPPORTED_NETWORKS ==
  << [key |-> "ethereum", chainId |-> 1,   name |-> "Ethereum"],
     [key |-> "bsc",      chainId |-> 56,  name |-> "BNB Smart Chain"],
     [key |-> "polygon",  chainId |-> 137, name |-> "Polygon"] >>

\* getNetworkByChainId: the switch on parseInt(chainId, 16), default ethereum
getNetworkByChainId(chainIdNum) ==
  CASE chainIdNum = 1 -> SUPPORTED_NETWORKS[1]
    [] chainIdNum = 56 -> SUPPORTED_NETWORKS[2]
    [] chainIdNum = 137 -> SUPPORTED_NETWORKS[3]
    [] OTHER -> SUPPORTED_NETWORKS[1]

\* chains the browser wallet may be on: the three of the table and another one
WalletChains == {1, 56, 137, 10}

\* networks typed into the manual form
TypedNetworks == {"Polygon", "BNB Smart Chain", "bsc"}

\* connectMetaMask up to its POST /api/wallets/connect, with
\* network: network.name.toLowerCase(); connectCoinbaseWallet builds the same
\* network and differs in walletType only
connectMetaMask(p, userId, chainIdNum) ==
  StartConnect(p, userId, toLowerCase(getNetworkByChainId(chainIdNum).name))

\* connectManualWallet up to its POST: throws before any request unless a
\* network of the table has the typed name, compared in lower case
connectManualWallet(p, userId, network) ==
  /\ \E k \in 1..Len(SUPPORTED_NETWORKS) :
       toLowerCase(SUPPORTED_NETWORKS[k].name) = toLowerCase(network)
  /\ StartConnect(p, userId, toLowerCase(network))

\* await fetchWalletBalances(connection.id): the connect was answered with the
\* connection and the client posts the refresh of its id
fetchWalletBalances(p) ==
  /\ h[p].pc = "respond" /\ h[p].route = "connect" /\ h[p].status = 200
  /\ h' = [h EXCEPT ![p] = [Fresh EXCEPT !.pc = "lookup", !.route = "refresh",
                                         !.userId = h[p].userId,
                                         !.walletId = h[p].walletId]]
  /\ UNCHANGED << tables, env, started, aside, lastRefresh >>

ClientNext ==
  \E p \in Handlers :
    \/ \E u \in Users, c \in WalletChains : connectMetaMask(p, u, c)
    \/ \E u \in Users, n \in TypedNetworks : connectManualWallet(p, u, n)
    \/ fetchWalletBalances(p)
    \/ ConnectCreate(p)
    \/ Lookup(p) \/ Fetch(p) \/ Price(p) \/ UpsertSelect(p) \/ UpsertWrite(p)
    \/ Finish(p)

\* the requests are those of the client's connect functions
ClientSpec == Init /\ [][ClientNext]_vars

(* ------------------- refreshes that run to their end ------------------ *)

\* one step of fetchAndUpdateWalletBalances: the call it awaits returned
RefreshStep(p) ==
  Lookup(p) \/ Fetch(p) \/ Price(p) \/ UpsertSelect(p) \/ UpsertWrite(p)

LiveNext ==
  \/ AllIdle /\ \E p \in Handlers, u \in Users, w \in Named : StartRefresh(p, u, w)
  \/ \E p \in Handlers : RefreshStep(p) \/ Finish(p) \/ StorageFault(p)
  \/ UpstreamChange

\* refresh requests one after the other, over a stored wallet; storage
\* operations may fail and the upstream answers may change; every call a
\* refresh awaits returns in the end, so its next step is taken
LiveSpec ==
  /\ InitStored
  /\ [][LiveNext]_vars
  /\ \A p \in Handlers : WF_vars(RefreshStep(p))

(* ----------------------- reads of the market cache -------------------- *)

\* storage.getMarketData(symbols): select ... where symbol = symbols[0]
getMarketData(rows, symbols) == {row \in rows : row.symbol = symbols[1]}

\* the lists a caller passes to getMarketData
MarketSymbolLists ==
  UNION { [1..n -> {"bitcoin", "ethereum"}] : n \in 1..MaxSymbols }

\* rows = await storage.getMarketData(symbols), called on its own; symbol is
\* unique in market_data, so the list has no row or one
CallGetMarketData(symbols) ==
  /\ call.op \in {"none", "read"}
  /\ LET rows == getMarketData(marketData, symbols)
     IN call' = [NoCall EXCEPT !.op = "read", !.symbols = symbols,
                               !.data = [k \in 1..Cardinality(rows) |->
                                           CHOOSE row \in rows : TRUE]]
  /\ UNCHANGED rest

CacheNext ==
  \/ MarketNext
  \/ \E symbols \in MarketSymbolLists : CallGetMarketData(symbols)

\* market-data requests, and reads of the cached rows between their steps
CacheSpec == MarketInit /\ [][CacheNext]_vars

(* ------------------------------- claims ------------------------------- *)

sameTriple(a, b) ==
  a.userId = b.userId /\ a.walletId = b.walletId /\ a.tokenSymbol = b.tokenSymbol

\* C1: in every reachable state there is at most one wallet_balances row per
\* (user id, wallet id, token symbol).
C1_OneRowPerTriple ==
  \A a \in walletBalances : \A b \in walletBalances : sameTriple(a, b) => a.id = b.id

\* handler p's upsert read no row for its triple, another request has inserted
\* one since, and p now performs its write
secondInsert(p) ==
  /\ h[p].pc = "upsert_write"
  /\ h[p].existing = 0
  /\ \E b \in walletBalances : sameTriple(b, current(h[p]))
  /\ h'[p] # h[p]

\* C2: when two refreshes of the same wallet and token both read "no existing
\* row", the insert of the second is not rejected: it adds one more row for the
\* triple, which then has at least two, and the refresh goes on without error.
C2_SecondInsertAccepted ==
  [][ \A p \in Handlers :
        secondInsert(p) =>
          /\ Cardinality({b \in walletBalances' : sameTriple(b, current(h[p]))})
               = Cardinality({b \in walletBalances : sameTriple(b, current(h[p]))}) + 1
          /\ Cardinality({b \in walletBalances' : sameTriple(b, current(h[p]))}) >= 2
          /\ h'[p].error = "" ]_vars

\* C2 witness: a refresh request was answered 200 with a row it inserted for a
\* triple that another row, inserted by the other refresh request, also has.
C2_TwoRowsLeft ==
  \E p \in Handlers :
    /\ h[p].pc = "respond" /\ h[p].route = "refresh" /\ h[p].status = 200
    /\ \E k \in 1..Len(h[p].saved) : \E b \in walletBalances :
         /\ sameTriple(b, h[p].saved[k])
         /\ b.id < h[p].saved[k].id

\* C3: once the owner's disconnect of a wallet has been answered, no
\* wallet_balances row has that wallet id, and getWalletBalances(userId,
\* walletId) is empty.
C3_DisconnectRemovesBalances ==
  \A p \in Handlers :
    (h[p].pc = "respond" /\ h[p].route = "disconnect" /\ h[p].status # 404) =>
      /\ \A b \in walletBalances : b.walletId # h[p].walletId
      /\ getWalletBalances(walletBalances, h[p].userId, h[p].walletId) = {}

owned(userId, walletId) ==
  \E w \in connectedWallets : w.id = walletId /\ w.userId = userId

\* the error the refresh of handler record r ended with, as its caller sees it
\* in record r2: "" when it has not ended with an error
refreshError(r, r2) ==
  IF r.inInit
  THEN IF Len(r2.log) > Len(r.log) THEN r2.log[Len(r2.log)].error ELSE ""
  ELSE IF r2.pc = "respond" THEN r2.error ELSE ""

\* C4: the wallet lookup of a refresh fails with "Wallet not found" whenever the
\* wallet id is not that of a wallet the user owns (also when another user owns
\* it), and only then.
C4_LookupOwnedOnly ==
  [][ \A p \in Handlers :
        (h[p].pc = "lookup" /\ h'[p] # h[p]) =>
          (refreshError(h[p], h'[p]) = "Wallet not found"
             <=> ~owned(h[p].userId, h[p].walletId)) ]_vars

\* C4 witness: a refresh was answered with "Wallet not found" for a wallet that
\* exists and belongs to another user.
C4_OtherUsersWallet ==
  \E p \in Handlers :
    /\ h[p].pc = "respond" /\ h[p].route = "refresh" /\ h[p].error = "Wallet not found"
    /\ \E w \in connectedWallets : w.id = h[p].walletId /\ w.userId # h[p].userId

networkOf(walletId) == (CHOOSE w \in connectedWallets : w.id = walletId).network

\* C5: for a wallet found for the user, the refresh fails with "Unsupported
\* network" exactly when the stored network is outside {ethereum, bsc, polygon,
\* tron}; ethereum, bsc and polygon go to the EVM fetcher with that network,
\* tron to the TRON fetcher.
C5_Dispatch ==
  [][ \A p \in Handlers :
        (h[p].pc = "lookup" /\ h'[p] # h[p] /\ owned(h[p].userId, h[p].walletId)) =>
          LET network == networkOf(h[p].walletId) IN
          /\ refreshError(h[p], h'[p]) = "Unsupported network"
               <=> network \notin {"ethereum", "bsc", "polygon", "tron"}
          /\ network \in {"ethereum", "bsc", "polygon"} =>
               h'[p].pc = "fetch" /\ h'[p].fetcher = "evm" /\ h'[p].network = network
          /\ network = "tron" => h'[p].pc = "fetch" /\ h'[p].fetcher = "tron" ]_vars

\* C5 witness: a refresh of a wallet the user owns, stored with a network
\* outside the four, was answered with "Unsupported network".
C5_UnsupportedAnswered ==
  \E p \in Handlers :
    /\ h[p].pc = "respond" /\ h[p].route = "refresh"
    /\ h[p].error = "Unsupported network"
    /\ owned(h[p].userId, h[p].walletId)
    /\ networkOf(h[p].walletId) \notin {"ethereum", "bsc", "polygon", "tron"}

\* handler p's refresh returns its saved balances in this step
returnsNow(p) ==
  /\ h[p].pc \in {"price", "upsert_write"}
  /\ h'[p] # h[p]
  /\ h'[p].pc # "upsert_select"
  /\ refreshError(h[p], h'[p]) = ""

\* C6: when a refresh of a wallet completes right after another completed
\* refresh of it that fetched the same raw balances, the (token symbol, balance)
\* pairs stored for the wallet are those the first left, and no row was added.
C6_RefreshIdempotent ==
  [][ \A p \in Handlers :
        (returnsNow(p) /\ lastRefresh[h[p].walletId] # {}) =>
          LET first == CHOOSE s \in lastRefresh[h[p].walletId] : TRUE
              w == h[p].walletId
          IN first.balances = h[p].balances =>
               /\ Pairs(walletBalances', w) = first.pairs
               /\ RowIds(walletBalances', w) = first.ids ]_vars

predefinedAddresses == {predefinedWallets[k].address : k \in 1..Len(predefinedWallets)}

\* C7: when the user has a connected wallet at the time ensureDefaultWallets
\* reads them, the call ends there: it creates no wallet, starts no refresh and
\* changes no balance row.
C7_NoSeedingWithAWallet ==
  [][ \A p \in Handlers :
        ( /\ h[p].pc = "init_read" /\ h'[p] # h[p]
          /\ \E w \in connectedWallets : w.userId = h[p].userId ) =>
          /\ h'[p].pc = "route_list" /\ ~h'[p].inInit /\ h'[p].log = << >>
          /\ connectedWallets' = connectedWallets
          /\ walletBalances' = walletBalances ]_vars

\* C7 witness: ensureDefaultWallets has returned without an attempt for a user
\* whose only wallets are not predefined ones.
C7_ReturnedForUserWallet ==
  \E p \in Handlers :
    /\ h[p].route = "connected" /\ h[p].pc = "route_list" /\ h[p].log = << >>
    /\ \E w \in connectedWallets : w.userId = h[p].userId
    /\ \A w \in connectedWallets :
         w.userId = h[p].userId => w.walletAddress \notin predefinedAddresses

event(ev, network) == [ev |-> ev, network |-> network, error |-> ""]

ExpectedSeeding ==
  << event("create", "ethereum"), event("refresh", "ethereum"),
     event("create", "bitcoin"),
     event("create", "bsc"), event("refresh", "bsc"),
     event("create", "tron"), event("refresh", "tron") >>

noFailure(log) == \A k \in 1..Len(log) : log[k].error = ""

\* C8: a seeding call in which no step fails creates the four wallets in the
\* order ethereum, bitcoin, bsc, tron and refreshes ethereum, bsc and tron once
\* each, right after creating that wallet and before creating the next; the
\* bitcoin wallet is never refreshed.  When no other request ran, the user then
\* has exactly these four wallets, in that order of creation.
C8_SeedingOrder ==
  \A p \in Handlers :
    LET log == h[p].log
        mine == {w \in connectedWallets : w.userId = h[p].userId}
    IN /\ noFailure(log) =>
            Len(log) <= Len(ExpectedSeeding) /\ log = SubSeq(ExpectedSeeding, 1, Len(log))
       /\ (h[p].pc = "route_list" /\ log # << >> /\ noFailure(log)) => log = ExpectedSeeding
       /\ \A k \in 1..Len(log) : ~(log[k].ev = "refresh" /\ log[k].network = "bitcoin")
       /\ (h[p].pc = "route_list" /\ log = ExpectedSeeding /\ started = 1) =>
            /\ Cardinality(mine) = 4
            /\ \A k \in 1..4 : \E w \in mine :
                 /\ w.network = ExpectedSeeding[CHOOSE n \in 1..7 :
                       /\ ExpectedSeeding[n].ev = "create"
                       /\ Cardinality({m \in 1..n : ExpectedSeeding[m].ev = "create"}) = k].network
                 /\ Cardinality({x \in mine : x.id < w.id}) = k - 1

\* C8 witness: a seeding call has run through all four wallets without failure.
C8_SeedingDone ==
  \E p \in Handlers : h[p].pc = "route_list" /\ h[p].log = ExpectedSeeding

\* C9: a user never has two copies of a predefined wallet, whatever the
\* GET /api/wallets/connected requests and however they overlap.
C9_OneCopyPerUser ==
  \A u \in Users : \A k \in 1..Len(predefinedWallets) :
    Cardinality({ w \in connectedWallets :
                    /\ w.userId = u
                    /\ w.network = predefinedWallets[k].network
                    /\ w.walletAddress = predefinedWallets[k].address }) <= 1

createsOf(log) ==
  LET created == SelectSeq(log, LAMBDA e : e.ev = "create")
  IN [k \in 1..Len(created) |-> created[k].network]

\* C10: in the seeding, a failed creation or refresh of one predefined wallet
\* does not end the loop: the creation of all four is attempted in order, the
\* failing step leaves both tables as they were, and ensureDefaultWallets
\* returns to the route instead of raising.
C10_SeedingSurvivesFailures ==
  /\ [](\A p \in Handlers :
          (h[p].pc = "route_list" /\ h[p].log # << >>) =>
            createsOf(h[p].log) = <<"ethereum", "bitcoin", "bsc", "tron">>)
  /\ [][ \A p \in Handlers :
           /\ ( /\ h[p].inInit
                /\ Len(h'[p].log) > Len(h[p].log)
                /\ h'[p].log[Len(h'[p].log)].error # "" ) =>
                /\ connectedWallets' = connectedWallets
                /\ walletBalances' = walletBalances
                /\ h'[p].pc \in {"init_create", "route_list"}
           /\ (h[p].pc = "init_read" \/ h[p].inInit) => h'[p].pc # "respond" ]_vars

\* C10 witness: a seeding call is back in the route after a step of an earlier
\* predefined wallet failed and a later one was created.
C10_WentOnAfterFailure ==
  \E p \in Handlers :
    /\ h[p].pc = "route_list"
    /\ \E k \in 1..Len(h[p].log) : \E n \in 1..Len(h[p].log) :
         /\ k < n
         /\ h[p].log[k].error # ""
         /\ h[p].log[n].ev = "create" /\ h[p].log[n].error = ""

\* the upstream answers every call successfully and reports no holdings
noActivity(up) == up.world = "empty" /\ up.explorer = "ok" /\ up.throws = {} /\ up.price = "ok"

\* C11: while the upstream answers successfully and reports a zero native
\* balance and no token balance for every address, a refresh of a wallet on a
\* supported network fetches the empty list, is answered with the empty list
\* and no error, and no balance row is ever written.
C11_NoActivityNothingStored ==
  noActivity(upstream) =>
    /\ walletBalances = {}
    /\ \A p \in Handlers :
         /\ h[p].pc \in {"price", "upsert_select", "upsert_write"} => h[p].balances = << >>
         /\ (h[p].pc = "respond" /\ h[p].route = "refresh"
               /\ h[p].error \notin {"Wallet not found", "Unsupported network"}) =>
              h[p].status = 200 /\ h[p].saved = << >>

\* a call the fetcher invocation made threw: fetchEVMBalance goes through its
\* calls until a token call throws, fetchTronBalance until any call throws
threw(network, up) ==
  IF network = "tron" THEN up.throws \cap {1, 2} # {} ELSE up.throws # {}

Min(S) == CHOOSE x \in S : \A y \in S : x <= y

\* the balances of the calls that succeeded before the fetcher's loop was left:
\* what the same upstream yields without throws, less the calls that threw and
\* the calls never made
collected(network, up) ==
  LET calm == [up EXCEPT !.throws = {}]
      full == IF network = "tron" THEN fetchTronBalance("TUser", calm)
              ELSE fetchEVMBalance("0xUser", network, calm)
      madeBy(b) == IF network = "tron" THEN (IF b.tokenSymbol = "TRX" THEN 1 ELSE 2)
                   ELSE callOf(network, b.tokenSymbol)
      ending == up.throws \cap (IF network = "tron" THEN {1, 2} ELSE {2, 3, 4})
      last == IF ending = {} THEN 5 ELSE Min(ending)
      kept(b) == madeBy(b) \notin up.throws /\ madeBy(b) < last
  IN SelectSeq(full, kept)

\* C12 as stated: whenever an upstream call inside a fetcher invocation throws,
\* the invocation returns the empty list.
C12_ThrowGivesEmpty ==
  (call.network # "" /\ threw(call.network, upstream)) => call.balances = << >>

\* C12 as amended: a fetcher invocation in which upstream calls throw returns
\* the balances of the calls that succeeded and nothing else: a partial list,
\* or the empty one when nothing was collected.
C12_ThrowGivesCollected ==
  call.network # "" => call.balances = collected(call.network, upstream)

\* C12 witness: a fetcher invocation in which a call threw returned a balance.
C12_PartialList ==
  call.network # "" /\ threw(call.network, upstream) /\ call.balances # << >>

\* the row the upsert of raw balance `balance` returned carries its symbol and
\* balance and no USD value
savedAs(row, balance) ==
  /\ row.tokenSymbol = balance.tokenSymbol
  /\ row.balance = balance.balance
  /\ row.balanceUSD = {}

\* C13: a failed price call (transport failure, non-success status, unparsable
\* body) gives the refresh the empty price mapping and no error; the refresh
\* goes on to upsert every fetched raw balance, and when it returns it has
\* saved one row per fetched balance, in order.
C13_PriceFailureAbsorbed ==
  [][ \A p \in Handlers :
        /\ (h[p].pc = "price" /\ h'[p] # h[p]) =>
             /\ refreshError(h[p], h'[p]) = ""
             /\ Len(h[p].balances) > 0 =>
                  /\ h'[p].pc = "upsert_select"
                  /\ h'[p].prices = NoPrices
                  /\ h'[p].balances = h[p].balances
        /\ (returnsNow(p) /\ Len(h[p].balances) > 0) =>
             LET n == Len(h[p].balances) IN
             /\ h[p].j = n /\ Len(h[p].saved) = n - 1
             /\ \A k \in 1..(n - 1) : savedAs(h[p].saved[k], h[p].balances[k])
             /\ \E row \in walletBalances' :
                  /\ savedAs(row, h[p].balances[n])
                  /\ row.userId = h[p].userId /\ row.walletId = h[p].walletId
             /\ h'[p].pc = "respond" => Len(h'[p].saved) = n /\ h'[p].status = 200 ]_vars

\* C13 witness: a refresh was answered 200 with the rows of both balances it
\* fetched while the price API was failing.
C13_SavedWithoutPrices ==
  \E p \in Handlers :
    /\ upstream.price # "ok"
    /\ h[p].pc = "respond" /\ h[p].route = "refresh" /\ h[p].status = 200
    /\ Len(h[p].saved) = 2

\* the symbols of symbolMapping
TableSymbols == {symbolMapping[k][1] : k \in 1..Len(symbolMapping)}

\* C14: whatever symbols are asked and whatever the price API answers, every
\* key of the mapping getTokenPrices returns is a symbol of its table; an asked
\* symbol outside the table is never a key.
C14_KeysInTable ==
  call.op \in {"priced", "built"} =>
    /\ DOMAIN call.prices \subseteq TableSymbols
    /\ \A k \in 1..Len(call.symbols) :
         call.symbols[k] \notin TableSymbols => call.symbols[k] \notin DOMAIN call.prices

\* C14 witness: getTokenPrices was asked a symbol outside the table and
\* returned prices.
C14_AskedOutsideTable ==
  /\ call.op = "priced"
  /\ \E k \in 1..Len(call.symbols) : call.symbols[k] \notin TableSymbols
  /\ DOMAIN call.prices # {}

RECURSIVE Pow10(_)
Pow10(n) == IF n <= 0 THEN 1 ELSE 10 * Pow10(n - 1)

\* the decimal u is the product of the decimals a and b, compared as integers
\* at their smallest common exponent
productOf(u, a, b) ==
  LET lo == IF u.e < a.e + b.e THEN u.e ELSE a.e + b.e
  IN u.m * Pow10(u.e - lo) = a.m * b.m * Pow10(a.e + b.e - lo)

\* C15: for every raw balance the refresh processes, the USD value of the
\* record it passes to the upsert is the balance times the price of the
\* balance's symbol when the price mapping has the symbol, and is unset when it
\* has not.
C15_UsdIsBalanceTimesPrice ==
  call.op = "built" =>
    \A k \in 1..Len(call.balances) :
      LET balance == call.balances[k]
          passed == call.data[k]
      IN /\ passed.tokenSymbol = balance.tokenSymbol
         /\ passed.balance = balance.balance
         /\ IF balance.tokenSymbol \in DOMAIN call.prices
            THEN /\ Cardinality(passed.balanceUSD) = 1
                 /\ \A u \in passed.balanceUSD :
                      productOf(u, balance.balance, call.prices[balance.tokenSymbol])
            ELSE passed.balanceUSD = {}

\* C15 witness: of the records built for one list of fetched balances, one has
\* a USD value that differs from its balance and another has none.
C15_PricedAndUnpriced ==
  /\ call.op = "built"
  /\ \E k \in 1..Len(call.data) :
       call.data[k].balanceUSD \notin { {}, {call.data[k].balance} }
  /\ \E k \in 1..Len(call.data) : call.data[k].balanceUSD = {}

\* the rows by which two states of a table differ: inserted, deleted, or
\* changed (a changed row is in both states, with different fields)
changed(before, after) == (before \ after) \cup (after \ before)

\* the user a handler's step is made for
actingUser(p) == IF h[p].pc = "idle" THEN h'[p].userId ELSE h[p].userId

\* C16: no step of a request made as one user inserts, changes, deletes or
\* returns a connected_wallets or wallet_balances row of another user, and
\* every wallet_balances row carries the id of a connected wallet of its own
\* user.
C16_NoCrossUserEffect ==
  /\ [](\A b \in walletBalances :
          \E w \in connectedWallets : w.id = b.walletId /\ w.userId = b.userId)
  /\ [][ \A p \in Handlers :
           h'[p] # h[p] =>
             /\ \A w \in changed(connectedWallets, connectedWallets') :
                  w.userId = actingUser(p)
             /\ \A b \in changed(walletBalances, walletBalances') :
                  b.userId = actingUser(p)
             /\ \A row \in h'[p].returned : row.userId = actingUser(p) ]_vars

\* C16 witness: a user's read of the balances of a wallet that belongs to
\* another user and has balance rows was answered.
C16_ReadOfAnothersWallet ==
  \E p \in Handlers :
    /\ h[p].pc = "respond" /\ h[p].route = "balances" /\ h[p].status = 200
    /\ \E b \in walletBalances : b.walletId = h[p].walletId /\ b.userId # h[p].userId

\* C17: a refresh request naming a wallet id that does not exist or is not the
\* requesting user's is answered with a client error status (4xx), not with a
\* server error.
C17_NotFoundIsClientError ==
  \A p \in Handlers :
    (h[p].pc = "respond" /\ h[p].route = "refresh" /\ h[p].error = "Wallet not found") =>
      h[p].status \in 400..499

\* the storage operation handler p awaits inside the core (the refresh or the
\* seeding) fails in this step
coreStorageFails(p) ==
  /\ faults' = faults + 1
  /\ h'[p] # h[p]
  /\ h[p].pc \in {"init_read", "init_create", "lookup", "upsert_select", "upsert_write"}

\* C18 as stated: every failure of a storage operation inside the refresh or
\* inside the seeding, its first read included, makes the calling route answer
\* with a failure.
C18_StorageFailurePropagates ==
  [][ \A p \in Handlers :
        coreStorageFails(p) => h'[p].pc = "respond" /\ h'[p].status >= 500 ]_vars

\* C18 as amended: a failure of a storage operation inside a refresh that the
\* refresh route called makes the route answer 500; a failure inside the
\* seeding (its first read, a creation, or a refresh it started) is caught
\* there, and the route goes on to the next predefined wallet or to its own
\* read of the wallets.
C18_RefreshRoutePropagates ==
  [][ \A p \in Handlers :
        coreStorageFails(p) =>
          IF h[p].route = "refresh"
          THEN h'[p].pc = "respond" /\ h'[p].status = 500 /\ h'[p].saved = << >>
          ELSE h'[p].pc \in {"init_create", "route_list"} /\ h'[p].status = 0 ]_vars

\* C18 witness: a refresh request for a wallet of the user was answered 500
\* after a storage operation inside the refresh failed.
C18_RefreshAnswered500 ==
  \E p \in Handlers :
    /\ h[p].pc = "respond" /\ h[p].route = "refresh"
    /\ h[p].status = 500 /\ h[p].error = "Storage"
    /\ owned(h[p].userId, h[p].walletId)

\* the user's connected wallets with the address and network of a connect body
sameConnection(wallets, userId, body) ==
  { w \in getConnectedWallets(wallets, userId) :
      w.walletAddress = "0xUser" /\ w.network = toLowerCase(body) }

\* C19: when a user connects an address and network they already have
\* connected, the request leaves the number of the user's connected wallets as
\* it was and the user still has one wallet with that address and network.
C19_ReconnectUpdates ==
  [][ \A p \in Handlers :
        ( /\ h[p].pc = "connect_create" /\ h'[p] # h[p]
          /\ sameConnection(connectedWallets, h[p].userId, h[p].body) # {} ) =>
          /\ Cardinality(getConnectedWallets(connectedWallets', h[p].userId))
               = Cardinality(getConnectedWallets(connectedWallets, h[p].userId))
          /\ Cardinality(sameConnection(connectedWallets', h[p].userId, h[p].body)) = 1 ]_vars

\* C20: in every reachable state a user has at most one portfolios row and at
\* most the four default wallet_addresses rows the lazy creation adds, also
\* when first-time portfolio requests of the user overlap.
C20_OnePortfolioPerUser ==
  \A u \in Users :
    /\ Cardinality(getPortfolio(portfolios, u)) <= 1
    /\ Cardinality({a \in walletAddresses : a.userId = u}) <= Len(defaultAddresses)

\* handler p's upsertMarketData is applied in this step
marketUpsertNow(p) == h[p].pc = "md_upsert" /\ h'[p] # h[p] /\ h'[p].error = ""

\* C21: the market_data table never holds two rows of one symbol, however the
\* upserts of market-data requests interleave; the table changes only by an
\* upsert, and right after an upsert the row of its symbol carries the price,
\* volume and 24h change of that upsert while the rows of the other symbols
\* are as before.
C21_OneRowPerSymbol ==
  /\ [](\A a \in marketData : \A b \in marketData : a.symbol = b.symbol => a = b)
  /\ [][ /\ marketData' # marketData => \E p \in Handlers : marketUpsertNow(p)
         /\ \A p \in Handlers :
              marketUpsertNow(p) =>
                LET data == marketEntry(h[p].quotes[h[p].j]) IN
                /\ \E row \in marketData' :
                     /\ row.symbol = data.symbol
                     /\ row.price = data.price
                     /\ row.volume24h = data.volume24h
                     /\ row.change24h = data.change24h
                /\ \A row \in marketData : row.symbol # data.symbol => row \in marketData'
                /\ \A row \in marketData' : row.symbol # data.symbol => row \in marketData
         ]_vars

\* C21 witness: a market-data request was answered with a row that a later
\* upsert of another request for the same symbol has overwritten since.
C21_RowOverwritten ==
  \E p \in Handlers :
    /\ h[p].pc = "respond" /\ h[p].route = "market" /\ h[p].status = 200
    /\ \E old \in h[p].returned : \E row \in marketData :
         row.symbol = old.symbol /\ row.id = old.id /\ row.price # old.price

\* handler p's read of the trading history returns in this step
historyReadNow(p) == h[p].pc = "hist_read" /\ h'[p] # h[p] /\ h'[p].status = 200

\* C22: no step removes or changes a trading_history row; a read of a user's
\* trading history returns rows of that user only, each once, newest first by
\* created_at, min(50, n) of the user's n rows, and no row left out is newer
\* than a row returned.
C22_AppendOnlyNewestFifty ==
  /\ [][ \A t \in tradingHistory : t \in tradingHistory' ]_vars
  /\ [][ \A p \in Handlers :
           historyReadNow(p) =>
             LET list == h'[p].history
                 mine == {t \in tradingHistory : t.userId = h[p].userId}
                 n == Cardinality(mine)
             IN /\ Len(list) = (IF n < 50 THEN n ELSE 50)
                /\ \A k \in 1..Len(list) : list[k] \in mine
                /\ \A k \in 1..Len(list) : \A l \in 1..Len(list) :
                     k < l => list[k] # list[l] /\ list[k].createdAt >= list[l].createdAt
                /\ \A t \in mine \ Range(list) :
                     \A k \in 1..Len(list) : t.createdAt <= list[k].createdAt ]_vars

\* C22 witness: a user with more than 50 trades was answered 50 of them while
\* another user has trades too.
C22_CappedAtFifty ==
  \E p \in Handlers :
    /\ h[p].pc = "respond" /\ h[p].route = "history"
    /\ Len(h[p].history) = 50
    /\ Cardinality({t \in tradingHistory : t.userId = h[p].userId}) > 50
    /\ \E t \in tradingHistory : t.userId # h[p].userId

\* handler p's upsertWalletBalance writes and returns in this step
upsertWritesNow(p) == h[p].pc = "ups_write" /\ h'[p] # h[p] /\ h'[p].status = 200

\* C23: a call of upsertWalletBalance with a wallet id that found a row of its
\* (user id, wallet id, token symbol) changes of that row nothing but balance
\* and USD value, and adds no row; a call that found none adds one row with the
\* fields given; every other row is left as it was.
C23_UpsertFrame ==
  [][ \A p \in Handlers :
        (upsertWritesNow(p) /\ h[p].data[1].walletId # 0) =>
          LET d == h[p].data[1]
              id == IF h[p].existing # 0 THEN h[p].existing ELSE nextBalanceId
          IN /\ \A b \in walletBalances : b.id # id => b \in walletBalances'
             /\ \A b \in walletBalances' : b.id # id => b \in walletBalances
             /\ IF h[p].existing # 0
                THEN /\ Cardinality(walletBalances') = Cardinality(walletBalances)
                     /\ \E old \in walletBalances : \E new \in walletBalances' :
                          /\ old.id = id /\ new.id = id
                          /\ sameTriple(old, d)
                          /\ new.balance = d.balance
                          /\ new.tokenAddress = old.tokenAddress
                          /\ new.userId = old.userId
                          /\ new.walletId = old.walletId
                          /\ new.tokenSymbol = old.tokenSymbol
                ELSE /\ Cardinality(walletBalances') = Cardinality(walletBalances) + 1
                     /\ [ id |-> id, userId |-> d.userId, walletId |-> d.walletId,
                          tokenSymbol |-> d.tokenSymbol, tokenAddress |-> d.tokenAddress,
                          balance |-> d.balance, balanceUSD |-> d.balanceUSD ]
                          \in walletBalances' ]_vars

\* C23 witness: a call returned the stored USDT row of wallet 1 with the
\* balance it was given and the contract address the row had, next to the rows
\* of another triple.
C23_UpdatedInPlace ==
  \E p \in Handlers :
    /\ h[p].pc = "respond" /\ h[p].route = "upsert" /\ h[p].status = 200
    /\ \E row \in h[p].returned :
         /\ row.walletId = 1 /\ row.tokenSymbol = "USDT"
         /\ row.balance = Norm(7, 0) /\ row.tokenAddress # NoAddress
         /\ row \in walletBalances
    /\ \E other \in walletBalances : other.tokenSymbol = "MATIC"

\* the rows without a wallet id of the user and token symbol of record d
detached(balances, d) ==
  { b \in balances : b.walletId = 0 /\ b.userId = d.userId /\ b.tokenSymbol = d.tokenSymbol }

\* C29: a call of upsertWalletBalance without a wallet id, made when a row
\* without a wallet id of the same user and token symbol is stored, finds that
\* row and updates it: the user keeps one such row for the token.
C29_DetachedUpsertUpdates ==
  [][ \A p \in Handlers :
        LET d == h[p].data[1] IN
        /\ ( /\ h[p].pc = "ups_select" /\ h'[p] # h[p]
             /\ d.walletId = 0 /\ detached(walletBalances, d) # {} ) =>
             h'[p].existing \in {b.id : b \in detached(walletBalances, d)}
        /\ ( /\ upsertWritesNow(p)
             /\ d.walletId = 0 /\ Cardinality(detached(walletBalances, d)) = 1 ) =>
             Cardinality(detached(walletBalances', d)) = 1 ]_vars

\* a fetcher invocation has returned, alone or followed by the price call
fetched(network) == call.op # "none" /\ call.network = network

EVMNetworks == {"ethereum", "bsc", "polygon"}

\* C24: the price client is called once per refresh, after the fetcher has
\* returned and before the first upsert, with the token symbols of the fetched
\* raw balances, each symbol once even when the fetcher returned it more than
\* once.
C24_PricesAskedOncePerSymbol ==
  (call.op \in {"priced", "built"} /\ call.network # "") =>
    /\ Range(call.symbols) = {call.balances[k].tokenSymbol : k \in 1..Len(call.balances)}
    /\ \A k \in 1..Len(call.symbols) : \A l \in 1..Len(call.symbols) :
         k # l => call.symbols[k] # call.symbols[l]

\* the CoinGecko id symbolMapping gives a symbol of the table
externalId(symbol) ==
  symbolMapping[CHOOSE k \in 1..Len(symbolMapping) : symbolMapping[k][1] = symbol][2]

\* C25: when the price API answers successfully and quotes a non-zero price
\* for the external id of a requested symbol of the table, the mapping
\* getTokenPrices returns has that symbol with that price.
C25_RequestedSymbolPriced ==
  (call.op = "priced" /\ upstream.price \in {"ok", "all"}) =>
    \A k \in 1..Len(call.symbols) :
      LET symbol == call.symbols[k] IN
      (symbol \in TableSymbols /\ CoinGeckoUsd(externalId(symbol)).m # 0) =>
        /\ symbol \in DOMAIN call.prices
        /\ call.prices[symbol] = CoinGeckoUsd(externalId(symbol))

\* the explorer call for entry k of the contract table was made and answered
\* OK, with status '1' and a result that is present and not '0'
answeredNonZero(network, up, k) ==
  LET tokens == TOKEN_CONTRACTS(network)
      response == RespondExplorer(up, network, tokens[k].symbol,
                                  ChainDecimals(tokens[k].symbol))
  IN /\ (k + 1) \in Range(call.issued)
     /\ ~response.thrown
     /\ response.ok
     /\ response.status = "1"
     /\ response.result # {}
     /\ \A r \in response.result : r.m # 0

\* C26: a token of the network's contract table is in the result of
\* fetchEVMBalance exactly when its balance call answered OK with success
\* status and a present, non-zero result; it is then there once, with the
\* table's contract address.
C26_TokenIffAnswered ==
  \A network \in EVMNetworks :
    fetched(network) =>
      \A k \in 1..Len(TOKEN_CONTRACTS(network)) :
        LET token == TOKEN_CONTRACTS(network)[k]
            entries == { i \in 1..Len(call.balances) :
                           /\ call.balances[i].tokenSymbol = token.symbol
                           /\ call.balances[i].tokenAddress # NoAddress }
        IN /\ entries # {} <=> answeredNonZero(network, upstream, k)
           /\ Cardinality(entries) <= 1
           /\ \A i \in entries : call.balances[i].tokenAddress = token.contract

\* C26 witness: a fetchEVMBalance in which a token call threw returned one
\* token of the table and not another whose call answered zero.
C26_SomeTokensMissing ==
  \E network \in EVMNetworks :
    /\ fetched(network)
    /\ upstream.throws # {} /\ upstream.explorer = "ok"
    /\ \E i \in 1..Len(call.balances) : call.balances[i].tokenSymbol = "USDT"
    /\ \A i \in 1..Len(call.balances) : call.balances[i].tokenSymbol # "USDC"
    /\ 3 \in Range(call.issued) /\ 3 \notin upstream.throws

\* C27: every fetchEVMBalance issues the call for the native balance and then
\* one call per entry of the network's contract table, each once and in the
\* table's order, whichever of them fail.
C27_EveryTokenCalled ==
  \A network \in EVMNetworks :
    fetched(network) =>
      call.issued = [k \in 1..(1 + Len(TOKEN_CONTRACTS(network))) |-> k]

\* the wallet ids handed out whose connected_wallets row has been deleted
gone == {w \in WalletIds : w < nextWalletId /\ find(connectedWallets, w) = {}}

\* C28: from the moment a disconnect has deleted a wallet, no wallet_balances
\* row references it, whatever a refresh that had passed its wallet lookup
\* before does afterwards: its late upserts neither leave nor re-create a row.
C28_NoRowsForGoneWallet ==
  \A w \in gone : referencing(walletBalances, w) = {}

\* C28 witness: a disconnect of a wallet was answered 200 and a refresh of the
\* same wallet, past its lookup before the wallet was deleted, has ended with
\* its insert refused.
C28_LateUpsertRefused ==
  \E p \in Handlers : \E q \in Handlers :
    /\ h[p].pc = "respond" /\ h[p].route = "disconnect" /\ h[p].status = 200
    /\ h[q].pc = "respond" /\ h[q].route = "refresh" /\ h[q].error = "ForeignKey"
    /\ h[q].walletId = h[p].walletId
    /\ h[p].walletId \in gone

\* handler p makes a step of fetchAndUpdateWalletBalances
refreshStep(p) ==
  /\ h[p].pc \in {"lookup", "fetch", "price", "upsert_select", "upsert_write"}
  /\ h'[p] # h[p]

\* C30: no step of a refresh deletes a wallet_balances row or changes a row
\* whose token symbol is not among the raw balances it fetched, and the list a
\* refresh returns has one row per fetched raw balance, with that balance's
\* symbol and amount and the call's user and wallet: a row of a token missing
\* from the fetch stays as it was and is not returned.
C30_RefreshLeavesOtherRows ==
  [][ \A p \in Handlers :
        /\ refreshStep(p) =>
             /\ \A b \in walletBalances : \E a \in walletBalances' : a.id = b.id
             /\ \A b \in walletBalances :
                  (\A k \in 1..Len(h[p].balances) :
                     h[p].balances[k].tokenSymbol # b.tokenSymbol) => b \in walletBalances'
        /\ (returnsNow(p) /\ h'[p].pc = "respond") =>
             /\ Len(h'[p].saved) = Len(h[p].balances)
             /\ h'[p].returned = Range(h'[p].saved)
             /\ \A k \in 1..Len(h'[p].saved) :
                  /\ h'[p].saved[k].tokenSymbol = h[p].balances[k].tokenSymbol
                  /\ h'[p].saved[k].balance = h[p].balances[k].balance
                  /\ h'[p].saved[k].userId = h[p].userId
                  /\ h'[p].saved[k].walletId = h[p].walletId ]_vars

\* C30 witness: a refresh of a wallet was answered without a USDT row while
\* the upstream reports no USDT, and a read of the wallet's balances was
\* answered with the USDT row an earlier refresh stored, its balance unchanged.
C30_StaleRowStillRead ==
  \E p \in Handlers : \E q \in Handlers :
    /\ upstream.world = "empty"
    /\ h[p].pc = "respond" /\ h[p].route = "refresh" /\ h[p].status = 200
    /\ h[p].returned # {}
    /\ \A row \in h[p].returned : row.tokenSymbol # "USDT"
    /\ h[q].pc = "respond" /\ h[q].route = "balances" /\ h[q].status = 200
    /\ h[q].userId = h[p].userId /\ h[q].walletId = h[p].walletId
    /\ \E row \in h[q].returned :
         row.tokenSymbol = "USDT" /\ row.balance = Norm(5, 0) /\ row \in walletBalances
    /\ \E row \in h[q].returned : row \in h[p].returned

\* the last upsert of a refresh is written and the call returns its list
returnsSaved(p) ==
  /\ h[p].pc = "upsert_write"
  /\ h[p].j = Len(h[p].balances)
  /\ ~(h[p].existing = 0 /\ insertRefused(connectedWallets, current(h[p])))
  /\ h'[p].pc # "upsert_write"

\* the stored rows of the k-th raw balance of the refresh of handler p
rowsOf(p, k) ==
  selectExisting(walletBalances',
                 balanceData(h[p].userId, h[p].walletId, h[p].balances[k], h[p].prices))

\* C31: when a refresh returns its list, every row it upserted has a USD value
\* exactly when the prices of this refresh have the row's symbol; a USD value
\* an earlier refresh stored is unset when this refresh has no price.
C31_UsdSetIffPriced ==
  [][\A p \in Handlers :
       returnsSaved(p) =>
         \A k \in 1..Len(h[p].balances) : \A b \in rowsOf(p, k) :
           (b.balanceUSD # {}) <=> (h[p].balances[k].tokenSymbol \in DOMAIN h[p].prices)]_vars

\* the refresh of handler p ends in this step with one of the two errors
failsEarly(p) ==
  /\ h[p].pc \in {"lookup", "fetch", "price", "upsert_select", "upsert_write"}
  /\ refreshError(h[p], h'[p]) \in {"Wallet not found", "Unsupported network"}

\* C32: a refresh that fails with "Wallet not found" or "Unsupported network"
\* fails at its wallet lookup: no fetcher and no price call was made for it, and
\* the step leaves connected_wallets and wallet_balances as they were.
C32_EarlyFailureFrame ==
  [][\A p \in Handlers :
       failsEarly(p) =>
         /\ h[p].pc = "lookup"
         /\ h[p].fetcher = "" /\ h[p].balances = << >> /\ h[p].prices = NoPrices
         /\ h[p].saved = << >>
         /\ connectedWallets' = connectedWallets
         /\ walletBalances' = walletBalances
         /\ nextBalanceId' = nextBalanceId ]_vars

\* C32 witness: a refresh was answered "Wallet not found" for a wallet id that
\* balance rows are stored under.
C32_FailedOverStoredRows ==
  \E p \in Handlers :
    /\ h[p].pc = "respond" /\ h[p].route = "refresh"
    /\ h[p].error = "Wallet not found"
    /\ referencing(walletBalances, h[p].walletId) # {}

\* C33: a disconnect naming a wallet id that is not among the requesting user's
\* wallets is answered 404 at the lookup, and connected_wallets and
\* wallet_balances stay as they were, the owner's rows included.
C33_ForeignDisconnectRefused ==
  [][\A p \in Handlers :
       (h[p].pc = "disc_read" /\ h'[p] # h[p] /\ ~owned(h[p].userId, h[p].walletId)) =>
         /\ h'[p].pc = "respond" /\ h'[p].status = 404
         /\ connectedWallets' = connectedWallets
         /\ walletBalances' = walletBalances ]_vars

\* C33 witness: a disconnect was answered 404 for a wallet of another user that
\* has balance rows stored.
C33_OwnersRowsKept ==
  \E p \in Handlers :
    /\ h[p].pc = "respond" /\ h[p].route = "disconnect" /\ h[p].status = 404
    /\ \E w \in connectedWallets : w.id = h[p].walletId /\ w.userId # h[p].userId
    /\ referencing(walletBalances, h[p].walletId) # {}

\* C34: no refresh that the client posts right after a connect for a network of
\* SUPPORTED_NETWORKS is answered "Unsupported network".
C34_ClientNetworksAccepted ==
  \A p \in Handlers :
    ~(h[p].pc = "respond" /\ h[p].route = "refresh"
        /\ h[p].error = "Unsupported network")

\* the decimals the conversion is to use for a fetched balance: 18 for the
\* native coin, 6 for USDT and USDC, 18 for every other token
unitDecimals(b) ==
  IF b.tokenAddress = NoAddress THEN 18
  ELSE IF b.tokenSymbol \in {"USDT", "USDC"} THEN 6 ELSE 18

\* C35: every balance fetchEVMBalance returns is the raw amount of its explorer
\* answer divided by 10^18 for the native coin, by 10^6 for USDT and USDC and by
\* 10^18 for the other tokens: a raw amount of k units comes back as k.
C35_DecimalConversion ==
  (call.op = "fetched" /\ call.network \in EVMNetworks) =>
    \A i \in 1..Len(call.balances) :
      LET b == call.balances[i]
          d == unitDecimals(b)
          k == Units(upstream.world, call.network, b.tokenSymbol)
      IN /\ RespondExplorer(upstream, call.network, b.tokenSymbol, d).result = {Raw(k, d)}
         /\ b.balance = [m |-> k, e |-> 0]

\* C35 witness: one fetch returned a native balance of 1 for the raw amount
\* 10^18, a USDT balance of 5 for the raw amount 5000000 and a balance of 4 of
\* another token for the raw amount 4 * 10^18.
C35_ThreeKindsConverted ==
  /\ call.op = "fetched" /\ call.network \in EVMNetworks
  /\ Raw(1, 18) = [m |-> 1, e |-> 18] /\ Raw(5, 6) = [m |-> 5, e |-> 6]
  /\ \E i, j, l \in 1..Len(call.balances) :
       /\ call.balances[i].tokenAddress = NoAddress
       /\ call.balances[i].balance = [m |-> 1, e |-> 0]
       /\ call.balances[j].tokenSymbol = "USDT"
       /\ call.balances[j].balance = [m |-> 5, e |-> 0]
       /\ call.balances[l].tokenAddress # NoAddress
       /\ call.balances[l].tokenSymbol \notin {"USDT", "USDC"}
       /\ call.balances[l].balance = [m |-> 4, e |-> 0]

\* C36: every refresh that was started is answered in the end, with its list
\* of saved balances or with the error it raised.
C36_RefreshFinishes ==
  \A p \in Handlers :
    (h[p].pc = "lookup") ~> (h[p].pc = "respond" /\ h[p].route = "refresh")

\* C36 witness: a refresh went through lookup, fetcher, price call and two
\* upserts and was answered with the two rows.
C36_RanToTheEnd ==
  \E p \in Handlers :
    /\ h[p].pc = "respond" /\ h[p].route = "refresh" /\ h[p].status = 200
    /\ Len(h[p].saved) = 2

\* C37: getMarketData(symbols) returns the stored row of every symbol of the
\* list that has one, and no other row.
C37_EveryListedSymbolReturned ==
  [][(call'.op = "read" /\ h' = h /\ marketData' = marketData) =>
       Range(call'.data) = {row \in marketData : row.symbol \in Range(call'.symbols)}]_vars

====
